---- MODULE Spec2Model ----
(***************************************************************************)
(* A model of the revm execution core: the journaled state                 *)
(* (crates/revm/src/journaled_state.rs), the gas settlement of a           *)
(* transaction (crates/revm/src/handler/mainnet.rs and                     *)
(* handler/mainnet/post_execution.rs) and the operand stack                *)
(* (crates/revm/src/machine/stack.rs).                                     *)
(***************************************************************************)
EXTENDS Integers, Sequences, FiniteSets, TLC

\* ------------------------------------------------------------------ bounds

\* Largest word: stands for U256::MAX; balances and storage values are 0..MaxWord.
MaxWord == 3
\* Largest nonce: stands for u64::MAX.
MaxNonce == 2
\* Number of journaled-state operations in one behaviour of Spec.
MaxOps == 3
\* Number of journaled-state operations in one behaviour of SpecRevert.
MaxRevertOps == 5
\* Number of journaled-state operations in one behaviour of SpecNested.
MaxNestedOps == 6
\* Number of logs.
MaxLogs == 2

\* ------------------------------------------------------- program constants

\* constants.rs: PRECOMPILE3, the address 0x00..03.
PRECOMPILE3 == 3
\* The number of precompiles the journaled state is built with
\* (JournaledState::new(num_of_precompiles); the tests use 3).
NumOfPrecompiles == 3

KECCAK_EMPTY == "KECCAK_EMPTY"

\* ----------------------------------------------------------------- domains

\* Addresses: the precompile 0x03, the first non-precompile 0x04, and 0x05.
Addr == {3, 4, 5}
Word == 0..MaxWord
Keys == {0}
\* Bytecode values: Bytecode::new() ("empty") and two non-empty codes.
NonEmptyCodes == {"A", "B"}
NoCode == "None"

\* Account status flags (AccountStatus); Loaded is the empty set of flags.
Created == "Created"
SelfDestructed == "SelfDestructed"
Touched == "Touched"
LoadedAsNotExisting == "LoadedAsNotExisting"

\* ------------------------------------------------------- pure helpers

\* Bytecode::is_empty
BytecodeIsEmpty(code) == code \notin NonEmptyCodes

\* Bytecode::hash_slow: KECCAK_EMPTY for the empty bytecode, else keccak256 of it.
hash_slow(code) == IF BytecodeIsEmpty(code) THEN KECCAK_EMPTY
                   ELSE IF code = "A" THEN "hA" ELSE "hB"

\* An address is its numeric value: the last two bytes are address % 2^16 and
\* the first eighteen are zero exactly when address < 2^16.
\* is_precompile with 0 and N counted in, 1 left out.
is_precompile_from_zero(address, num) == address < 65536 /\ address % 65536 <= num % 65536

\* is_precompile(address, num_of_precompiles): false unless address[..18] is all
\* zero, then num.wrapping_sub(1) < num_of_precompiles as u16.
is_precompile(address, num) ==
    IF ~(address < 65536) THEN FALSE
    ELSE LET num16 == address % 65536
         IN ((num16 - 1) % 65536) < num % 65536

\* The database (trait Database): basic, code_by_hash, storage.  It is only read.
\* basic(a) is Some(info) for 0x04 (a contract holding the largest balance) and
\* 0x05 (a plain account), None for every other address.
DbHas(a) == a \in {4, 5}
DbBasic(a) ==
    IF a = 4 THEN [balance |-> MaxWord, nonce |-> 0, code_hash |-> "hA", code |-> NoCode]
    ELSE [balance |-> 1, nonce |-> 0, code_hash |-> KECCAK_EMPTY, code |-> NoCode]

DbCodeByHash(h) == IF h = "hA" THEN "A" ELSE IF h = "hB" THEN "B" ELSE "empty"

DbStorage(a, k) == IF a = 4 THEN 1 ELSE 0

\* Account::from(AccountInfo): status Loaded, no storage.
AccountFromInfo(info) ==
    [balance |-> info.balance, nonce |-> info.nonce, code_hash |-> info.code_hash,
     code |-> info.code, storage |-> << >>, status |-> {}]

\* Account::new_not_existing: default info, status LoadedAsNotExisting.
new_not_existing ==
    [balance |-> 0, nonce |-> 0, code_hash |-> KECCAK_EMPTY, code |-> "empty",
     storage |-> << >>, status |-> {LoadedAsNotExisting}]

\* Account::is_touched
is_touched(acc) == Touched \in acc.status

\* Account::is_empty (EIP-161): no code, zero nonce, zero balance.
is_empty(acc) == acc.code_hash = KECCAK_EMPTY /\ acc.nonce = 0 /\ acc.balance = 0

\* StorageSlot::new(value)
StorageSlotNew(value) == [original_value |-> value, present_value |-> value]

\* HashMap insert / remove on functions.
MapPut(m, k, v) == [x \in (DOMAIN m) \cup {k} |-> IF x = k THEN v ELSE m[x]]
MapDel(m, k) == [x \in (DOMAIN m) \ {k} |-> m[x]]

\* Wrapping word arithmetic of the unchecked `+=` and `-=`.
WrapAdd(x, y) == (x + y) % (MaxWord + 1)
WrapSub(x, y) == (x - y + MaxWord + 1) % (MaxWord + 1)

\* ---------------------------------------------------------------- state

VARIABLES
    state,                      \* JournaledState.state: loaded address -> Account
    logs,                       \* JournaledState.logs
    depth,                      \* JournaledState.depth
    journal,                    \* JournaledState.journal: Seq(Seq(JournalEntry))
    is_before_spurious_dragon,  \* JournaledState.is_before_spurious_dragon
    panicked,                   \* an unwrap() of None was hit: the program aborted
    checkpoints,                \* the JournalCheckpoints handed out and still open, innermost last
    fuel,                       \* operations the behaviour may still perform
    lastOp,                     \* the last operation: its arguments, result and the state before it
    tx_env,                     \* Env of the transaction being settled
    tx_frame,                   \* FrameResult of the first frame: InstructionResult and Gas
    tx_gas,                     \* the Gas of the transaction, after handle_call_return
    tx_out,                     \* gas units reimbursed and rewarded, and the ExecutionResult
    tx_pc,                      \* the step transact_preverified_inner is at
    data,                       \* Stack.data, top of the stack last
    stackOp,                    \* the last stack operation: result and the data before it
    sfuel,                      \* stack operations the behaviour may still perform
    call_stack,                 \* run_the_loop: call_stack, the executing frame last
    shared_memory,              \* run_the_loop: shared_memory
    loop_pc,                    \* run_the_loop: running, returned Ok(result) or returned Err
    loop_step,                  \* the last iteration of the loop: the action and what became of it
    lfuel,                      \* iterations the behaviour may still perform
    interpreter,                \* Interpreter of the executing frame
    parents,                    \* the suspended interpreters of the calling frames
    instr,                      \* the last instruction: its name and the interpreter before it
    ifuel,                      \* frames the behaviour may still enter
    evm,                        \* Evm: the entry point called, where it is, and what it returned
    bytecode,                   \* Bytecode: the byte buffer and the BytecodeState
    fetch,                      \* the instruction pointer over bytecode and the last read
    arith,                      \* the last arithmetic instruction: operands and result
    handler,                    \* Handler: spec_id, registers and the handles they set
    registered                  \* the register calls so far and the last register operation

jvars == <<state, logs, depth, journal, is_before_spurious_dragon, panicked,
           checkpoints, fuel, lastOp>>
gvars == <<tx_env, tx_frame, tx_gas, tx_out, tx_pc>>
svars == <<data, stackOp, sfuel>>
lvars == <<call_stack, shared_memory, loop_pc, loop_step, lfuel>>
ivars == <<interpreter, parents, instr, ifuel>>
evars == <<evm>>
pvars == <<bytecode, fetch, arith>>
hvars == <<handler, registered>>
\* What the journaled state, the settlement and the stack leave alone.
not_journal == <<gvars, svars, lvars, ivars, evars, pvars, hvars>>
not_gas == <<svars, lvars, ivars, evars, pvars, hvars>>
not_stack == <<jvars, gvars, lvars, ivars, evars, pvars, hvars>>
not_loop == <<gvars, svars, ivars, evars, pvars, hvars>>

\* ------------------------------------------------ journal entries

AccountLoaded(a) == [kind |-> "AccountLoaded", address |-> a]
AccountTouched(a) == [kind |-> "AccountTouched", address |-> a]
AccountDestroyed(a, t, was, bal) ==
    [kind |-> "AccountDestroyed", address |-> a, target |-> t,
     was_destroyed |-> was, had_balance |-> bal]
BalanceTransfer(f, t, bal) == [kind |-> "BalanceTransfer", from |-> f, to |-> t, balance |-> bal]
NonceChange(a) == [kind |-> "NonceChange", address |-> a]
\* had_value is a set: {} for None, {v} for Some(v).
StorageChange(a, k, had) == [kind |-> "StorageChange", address |-> a, key |-> k, had_value |-> had]
CodeChange(a, code) == [kind |-> "CodeChange", address |-> a, had_code |-> code]

\* self.journal.last_mut().unwrap().push(entry)
PushLast(jl, e) == [jl EXCEPT ![Len(jl)] = Append(@, e)]

\* --------------------------------------- JournaledState operations
\* Each operation is a function of (state, journal) that returns the new
\* (state, journal) and the operation's result.

\* touch_account without the is_touched test: every touch is journaled.
touch_account_always(st, jl, address) ==
    [st |-> [st EXCEPT ![address].status = @ \cup {Touched}],
     jl |-> PushLast(jl, AccountTouched(address))]

\* JournaledState::touch_account
touch_account(st, jl, address) ==
    IF ~is_touched(st[address])
    THEN [st |-> [st EXCEPT ![address].status = @ \cup {Touched}],
          jl |-> PushLast(jl, AccountTouched(address))]
    ELSE [st |-> st, jl |-> jl]

\* JournaledState::touch
touch(st, jl, address) ==
    IF address \in DOMAIN st THEN touch_account(st, jl, address)
    ELSE [st |-> st, jl |-> jl]

\* JournaledState::load_account
load_account(st, jl, address) ==
    IF address \in DOMAIN st
    THEN [st |-> st, jl |-> jl, is_cold |-> FALSE]
    ELSE LET account == IF DbHas(address) THEN AccountFromInfo(DbBasic(address))
                        ELSE new_not_existing
         IN [st |-> MapPut(st, address, account),
             jl |-> PushLast(jl, AccountLoaded(address)),
             is_cold |-> ~is_precompile(address, NumOfPrecompiles)]

\* JournaledState::load_account_exist
load_account_exist(st, jl, address, before_sd) ==
    LET l == load_account(st, jl, address)
        acc == l.st[address]
        exist == IF before_sd
                 THEN LET was_existing == acc.status = {LoadedAsNotExisting}
                          was_touched == acc.status = {Touched}
                      IN was_existing \/ was_touched
                 ELSE ~is_empty(acc)
    IN [st |-> l.st, jl |-> l.jl, is_cold |-> l.is_cold, exist |-> exist]

\* JournaledState::load_code
load_code(st, jl, address) ==
    LET l == load_account(st, jl, address)
        acc == l.st[address]
        code == IF acc.code = NoCode
                THEN IF acc.code_hash = KECCAK_EMPTY THEN "empty"
                     ELSE DbCodeByHash(acc.code_hash)
                ELSE acc.code
    IN [st |-> [l.st EXCEPT ![address].code = code], jl |-> l.jl, is_cold |-> l.is_cold]

\* JournaledState::set_code
set_code(st, jl, address, code) ==
    LET t == touch_account(st, jl, address)
    IN [st |-> [t.st EXCEPT ![address].code_hash = hash_slow(code),
                            ![address].code = code],
        jl |-> PushLast(t.jl, CodeChange(address, code))]

\* inc_nonce without the overflow test: the nonce wraps to 0.
inc_nonce_unchecked(st, jl, address) ==
    LET t == touch_account(st, jl, address)
        nonce == (t.st[address].nonce + 1) % (MaxNonce + 1)
    IN [st |-> [t.st EXCEPT ![address].nonce = nonce],
        jl |-> PushLast(t.jl, NonceChange(address)),
        res |-> {nonce}]

\* JournaledState::inc_nonce; res is {} for None, {nonce} for Some(nonce).
inc_nonce(st, jl, address) ==
    IF st[address].nonce = MaxNonce
    THEN [st |-> st, jl |-> jl, res |-> {}]
    ELSE LET t == touch_account(st, jl, address)
         IN [st |-> [t.st EXCEPT ![address].nonce = @ + 1],
             jl |-> PushLast(t.jl, NonceChange(address)),
             res |-> {t.st[address].nonce + 1}]

\* transfer with the BalanceTransfer entry pushed before the overflow check.
transfer_journal_early(st, jl, from, to, balance) ==
    LET l1 == load_account(st, jl, from)
        l2 == load_account(l1.st, l1.jl, to)
        t1 == touch_account(l2.st, l2.jl, from)
    IN IF t1.st[from].balance < balance
       THEN [st |-> t1.st, jl |-> t1.jl, res |-> "OutOfFund"]
       ELSE LET s1 == [t1.st EXCEPT ![from].balance = @ - balance]
                t2 == touch_account(s1, t1.jl, to)
                j2 == PushLast(t2.jl, BalanceTransfer(from, to, balance))
            IN IF t2.st[to].balance + balance > MaxWord
               THEN [st |-> t2.st, jl |-> j2, res |-> "OverflowPayment"]
               ELSE [st |-> [t2.st EXCEPT ![to].balance = @ + balance],
                     jl |-> j2, res |-> "Ok"]

\* transfer that journals the entry with the two accounts exchanged.
transfer_journal_swapped(st, jl, from, to, balance) ==
    LET l1 == load_account(st, jl, from)
        l2 == load_account(l1.st, l1.jl, to)
        t1 == touch_account(l2.st, l2.jl, from)
    IN IF t1.st[from].balance < balance
       THEN [st |-> t1.st, jl |-> t1.jl, res |-> "OutOfFund"]
       ELSE LET s1 == [t1.st EXCEPT ![from].balance = @ - balance]
                t2 == touch_account(s1, t1.jl, to)
            IN IF t2.st[to].balance + balance > MaxWord
               THEN [st |-> t2.st, jl |-> t2.jl, res |-> "OverflowPayment"]
               ELSE [st |-> [t2.st EXCEPT ![to].balance = @ + balance],
                     jl |-> PushLast(t2.jl, BalanceTransfer(to, from, balance)),
                     res |-> "Ok"]

\* JournaledState::transfer
transfer(st, jl, from, to, balance) ==
    LET l1 == load_account(st, jl, from)
        l2 == load_account(l1.st, l1.jl, to)
        t1 == touch_account(l2.st, l2.jl, from)
    IN IF t1.st[from].balance < balance
       THEN [st |-> t1.st, jl |-> t1.jl, res |-> "OutOfFund"]
       ELSE LET s1 == [t1.st EXCEPT ![from].balance = @ - balance]
                t2 == touch_account(s1, t1.jl, to)
            IN IF t2.st[to].balance + balance > MaxWord
               THEN [st |-> t2.st, jl |-> t2.jl, res |-> "OverflowPayment"]
               ELSE [st |-> [t2.st EXCEPT ![to].balance = @ + balance],
                     jl |-> PushLast(t2.jl, BalanceTransfer(from, to, balance)),
                     res |-> "Ok"]

\* JournaledState::create_account
create_account(st, jl, address) ==
    LET account == st[address]
    IN IF account.code_hash = KECCAK_EMPTY THEN [st |-> st, jl |-> jl, res |-> FALSE]
       ELSE IF account.nonce # 0 THEN [st |-> st, jl |-> jl, res |-> FALSE]
       ELSE IF is_precompile(address, NumOfPrecompiles) THEN [st |-> st, jl |-> jl, res |-> FALSE]
       ELSE LET s1 == [st EXCEPT ![address].status = @ \cup {Created},
                                 ![address].code_hash = KECCAK_EMPTY,
                                 ![address].code = NoCode,
                                 ![address].storage = << >>]
                t == touch_account(s1, jl, address)
            IN [st |-> t.st, jl |-> t.jl, res |-> TRUE]

\* JournaledState::sload
sload(st, jl, address, key) ==
    LET account == st[address]
    IN IF key \in DOMAIN account.storage
       THEN [st |-> st, jl |-> jl, value |-> account.storage[key].present_value,
             is_cold |-> FALSE]
       ELSE LET value == IF account.status = {Created} THEN 0 ELSE DbStorage(address, key)
            IN [st |-> [st EXCEPT ![address].storage = MapPut(@, key, StorageSlotNew(value))],
                jl |-> PushLast(jl, StorageChange(address, key, {})),
                value |-> value, is_cold |-> TRUE]

\* sstore that journals and writes whether or not the value changes.
sstore_always_journals(st, jl, address, key, new) ==
    LET l == sload(st, jl, address, key)
        present == l.value
        slot == l.st[address].storage[key]
    IN [st |-> [l.st EXCEPT ![address].storage[key].present_value = new],
        jl |-> PushLast(l.jl, StorageChange(address, key, {present})),
        original |-> slot.original_value,
        present |-> present, new |-> new, is_cold |-> l.is_cold]

\* JournaledState::sstore
sstore(st, jl, address, key, new) ==
    LET l == sload(st, jl, address, key)
        present == l.value
        slot == l.st[address].storage[key]
    IN IF present = new
       THEN [st |-> l.st, jl |-> l.jl, original |-> slot.original_value,
             present |-> present, new |-> new, is_cold |-> l.is_cold]
       ELSE [st |-> [l.st EXCEPT ![address].storage[key].present_value = new],
             jl |-> PushLast(l.jl, StorageChange(address, key, {present})),
             original |-> slot.original_value,
             present |-> present, new |-> new, is_cold |-> l.is_cold]

\* JournaledState::selfdestruct
selfdestruct(st, jl, address, target, before_sd) ==
    LET l == load_account_exist(st, jl, target, before_sd)
        acc == l.st[address]
        balance == acc.balance
        previously_destroyed == acc.status = {SelfDestructed}
        s1 == [l.st EXCEPT ![address].balance = 0,
                           ![address].status = @ \cup {SelfDestructed}]
        t == IF address # target
             THEN LET tt == touch_account(s1, l.jl, target)
                  IN [st |-> [tt.st EXCEPT ![target].balance = WrapAdd(@, balance)],
                      jl |-> tt.jl]
             ELSE [st |-> s1, jl |-> l.jl]
    IN [st |-> t.st,
        jl |-> PushLast(t.jl, AccountDestroyed(address, target, previously_destroyed, balance)),
        had_value |-> balance # 0, is_cold |-> l.is_cold, target_exists |-> l.exist,
        previously_destroyed |-> previously_destroyed]

\* One journal entry undone (the body of the loop of journal_revert).  ok is
\* FALSE when an unwrap() meets an account or a slot that is not there.
revert_entry(st, entry, is_spurious_dragon_enabled) ==
    IF entry.kind = "AccountLoaded"
    THEN IF is_spurious_dragon_enabled /\ entry.address = PRECOMPILE3
         THEN [ok |-> TRUE, st |-> st]
         ELSE [ok |-> TRUE, st |-> MapDel(st, entry.address)]
    ELSE IF entry.kind = "AccountTouched"
    THEN IF is_spurious_dragon_enabled /\ entry.address = PRECOMPILE3
         THEN [ok |-> TRUE, st |-> st]
         ELSE IF entry.address \notin DOMAIN st THEN [ok |-> FALSE, st |-> st]
         ELSE [ok |-> TRUE, st |-> [st EXCEPT ![entry.address].status = @ \ {Touched}]]
    ELSE IF entry.kind = "AccountDestroyed"
    THEN IF entry.address \notin DOMAIN st THEN [ok |-> FALSE, st |-> st]
         ELSE LET s1 == [st EXCEPT
                            ![entry.address].status =
                                IF entry.was_destroyed THEN @ \cup {SelfDestructed}
                                ELSE @ \ {SelfDestructed},
                            ![entry.address].balance = WrapAdd(@, entry.had_balance)]
              IN IF entry.address # entry.target
                 THEN IF entry.target \notin DOMAIN s1 THEN [ok |-> FALSE, st |-> st]
                      ELSE [ok |-> TRUE,
                            st |-> [s1 EXCEPT ![entry.target].balance =
                                                  WrapSub(@, entry.had_balance)]]
                 ELSE [ok |-> TRUE, st |-> s1]
    ELSE IF entry.kind = "BalanceTransfer"
    THEN IF entry.from \notin DOMAIN st \/ entry.to \notin DOMAIN st
         THEN [ok |-> FALSE, st |-> st]
         ELSE LET s1 == [st EXCEPT ![entry.from].balance = WrapAdd(@, entry.balance)]
              IN [ok |-> TRUE,
                  st |-> [s1 EXCEPT ![entry.to].balance = WrapSub(@, entry.balance)]]
    ELSE IF entry.kind = "NonceChange"
    THEN IF entry.address \notin DOMAIN st THEN [ok |-> FALSE, st |-> st]
         ELSE [ok |-> TRUE, st |-> [st EXCEPT ![entry.address].nonce = @ - 1]]
    ELSE IF entry.kind = "StorageChange"
    THEN IF entry.address \notin DOMAIN st THEN [ok |-> FALSE, st |-> st]
         ELSE IF entry.had_value # {}
         THEN IF entry.key \notin DOMAIN st[entry.address].storage
              THEN [ok |-> FALSE, st |-> st]
              ELSE [ok |-> TRUE,
                    st |-> [st EXCEPT ![entry.address].storage[entry.key].present_value =
                                          CHOOSE v \in entry.had_value : TRUE]]
         ELSE [ok |-> TRUE,
               st |-> [st EXCEPT ![entry.address].storage = MapDel(@, entry.key)]]
    ELSE \* CodeChange
         IF entry.address \notin DOMAIN st THEN [ok |-> FALSE, st |-> st]
         ELSE [ok |-> TRUE,
               st |-> [st EXCEPT ![entry.address].code_hash = hash_slow(entry.had_code),
                                 ![entry.address].code = entry.had_code]]

\* for entry in journal_entries.into_iter().rev(): entries i, i-1, .., 1.
RECURSIVE RevertDownFrom(_, _, _, _)
RevertDownFrom(r, entries, i, sd) ==
    IF i = 0 \/ ~r.ok THEN r
    ELSE RevertDownFrom(revert_entry(r.st, entries[i], sd), entries, i - 1, sd)

\* The same loop without .rev(): entries i, i+1, .., Len.
RECURSIVE RevertUpFrom(_, _, _, _)
RevertUpFrom(r, entries, i, sd) ==
    IF i > Len(entries) \/ ~r.ok THEN r
    ELSE RevertUpFrom(revert_entry(r.st, entries[i], sd), entries, i + 1, sd)

journal_revert_forward(r, journal_entries, is_spurious_dragon_enabled) ==
    RevertUpFrom(r, journal_entries, 1, is_spurious_dragon_enabled)

\* JournaledState::journal_revert, from the state r.st (r.ok carries an earlier abort).
journal_revert(r, journal_entries, is_spurious_dragon_enabled) ==
    RevertDownFrom(r, journal_entries, Len(journal_entries), is_spurious_dragon_enabled)

\* self.journal.iter_mut().rev().take(leng - journal_i).for_each(journal_revert):
\* the vectors leng, leng-1, .., journal_i + 1 (1-based).
RECURSIVE RevertVectors(_, _, _, _, _)
RevertVectors(r, jl, i, journal_i, sd) ==
    IF i <= journal_i THEN r
    ELSE RevertVectors(journal_revert(r, jl[i], sd), jl, i - 1, journal_i, sd)

\* checkpoint_revert with the hardfork test turned round: the entries of
\* PRECOMPILE3 are skipped before Spurious Dragon.
checkpoint_revert_quirk_before(st, lg, jl, checkpoint, before_sd) ==
    LET is_spurious_dragon_enabled == before_sd
        r == RevertVectors([ok |-> TRUE, st |-> st], jl, Len(jl), checkpoint.journal_i,
                           is_spurious_dragon_enabled)
    IN [ok |-> r.ok, st |-> r.st,
        lg |-> SubSeq(lg, 1, checkpoint.log_i),
        jl |-> SubSeq(jl, 1, checkpoint.journal_i)]

\* checkpoint_revert dropping the last journal vector only, whatever the
\* checkpoint holds.
checkpoint_revert_pops_one(st, lg, jl, checkpoint, before_sd) ==
    LET is_spurious_dragon_enabled == ~before_sd
        r == RevertVectors([ok |-> TRUE, st |-> st], jl, Len(jl), checkpoint.journal_i,
                           is_spurious_dragon_enabled)
    IN [ok |-> r.ok, st |-> r.st,
        lg |-> SubSeq(lg, 1, checkpoint.log_i),
        jl |-> SubSeq(jl, 1, Len(jl) - 1)]

\* checkpoint_revert that leaves the logs as they are.
checkpoint_revert_keeps_logs(st, lg, jl, checkpoint, before_sd) ==
    LET is_spurious_dragon_enabled == ~before_sd
        r == RevertVectors([ok |-> TRUE, st |-> st], jl, Len(jl), checkpoint.journal_i,
                           is_spurious_dragon_enabled)
    IN [ok |-> r.ok, st |-> r.st,
        lg |-> lg,
        jl |-> SubSeq(jl, 1, checkpoint.journal_i)]

\* JournaledState::checkpoint_revert on (state, logs, journal); depth is the action's.
checkpoint_revert(st, lg, jl, checkpoint, before_sd) ==
    LET is_spurious_dragon_enabled == ~before_sd
        r == RevertVectors([ok |-> TRUE, st |-> st], jl, Len(jl), checkpoint.journal_i,
                           is_spurious_dragon_enabled)
    IN [ok |-> r.ok, st |-> r.st,
        lg |-> SubSeq(lg, 1, checkpoint.log_i),
        jl |-> SubSeq(jl, 1, checkpoint.journal_i)]

\* ------------------------------------------------------------- actions

\* The kinds of operation performed inside each open checkpoint.
Noted(tag) == [i \in DOMAIN checkpoints |-> [checkpoints[i] EXCEPT !.ops = @ \cup {tag}]]

\* The record of an operation: name, arguments, result, and the state before it.
OpRecord(op, a, b, k, v, res) ==
    [op |-> op, a |-> a, b |-> b, k |-> k, v |-> v, res |-> res,
     pre |-> state, prej |-> journal, prelogs |-> logs]

\* An operation on (state, journal) took place.
Effect(r, tag, rec) ==
    /\ ~panicked /\ fuel > 0
    /\ state' = r.st
    /\ journal' = r.jl
    /\ checkpoints' = Noted(tag)
    /\ fuel' = fuel - 1
    /\ lastOp' = rec
    /\ UNCHANGED <<logs, depth, is_before_spurious_dragon, panicked>>
    /\ UNCHANGED not_journal

LoadAccount(a) ==
    LET r == load_account(state, journal, a)
    IN Effect(r, "load_account", OpRecord("load_account", a, a, 0, 0, r.is_cold))

LoadAccountExist(a) ==
    LET r == load_account_exist(state, journal, a, is_before_spurious_dragon)
    IN Effect(r, "load_account_exist",
              OpRecord("load_account_exist", a, a, 0, 0, <<r.is_cold, r.exist>>))

LoadCode(a) ==
    LET r == load_code(state, journal, a)
    IN Effect(r, "load_code", OpRecord("load_code", a, a, 0, 0, r.is_cold))

Touch(a) ==
    LET r == touch(state, journal, a)
    IN Effect(r, "touch", OpRecord("touch", a, a, 0, 0, TRUE))

\* set_code assumes the account is loaded ("use it only if you know that acc is hot").
SetCode(a, code) ==
    /\ a \in DOMAIN state
    /\ LET r == set_code(state, journal, a, code)
       IN Effect(r, "set_code", OpRecord("set_code", a, a, 0, code, TRUE))

\* inc_nonce unwraps the account: it is called on loaded accounts.
IncNonce(a) ==
    /\ a \in DOMAIN state
    /\ LET r == inc_nonce(state, journal, a)
       IN Effect(r, IF r.res = {} THEN "inc_nonce:None" ELSE "inc_nonce",
                 OpRecord("inc_nonce", a, a, 0, 0, r.res))

Transfer(from, to, balance) ==
    LET r == transfer(state, journal, from, to, balance)
    IN Effect(r, IF r.res = "Ok" THEN "transfer" ELSE r.res,
              OpRecord("transfer", from, to, 0, balance, r.res))

\* create_account is called after the account was loaded.
CreateAccount(a) ==
    /\ a \in DOMAIN state
    /\ LET r == create_account(state, journal, a)
       IN Effect(r, IF r.res THEN "create_account" ELSE "create_account:false",
                 OpRecord("create_account", a, a, 0, 0, r.res))

\* sload and sstore assume the account is present and loaded.
SLoad(a, key) ==
    /\ a \in DOMAIN state
    /\ LET r == sload(state, journal, a, key)
       IN Effect(r, "sload", OpRecord("sload", a, a, key, 0, <<r.value, r.is_cold>>))

SStore(a, key, new) ==
    /\ a \in DOMAIN state
    /\ LET r == sstore(state, journal, a, key, new)
       IN Effect(r, "sstore",
                 OpRecord("sstore", a, a, key, new,
                          <<r.original, r.present, r.new, r.is_cold>>))

\* selfdestruct unwraps the destroyed account: the executing contract is loaded.
SelfDestruct(a, target) ==
    /\ a \in DOMAIN state
    /\ LET r == selfdestruct(state, journal, a, target, is_before_spurious_dragon)
       IN Effect(r, "selfdestruct",
                 OpRecord("selfdestruct", a, target, 0, 0,
                          [had_value |-> r.had_value, is_cold |-> r.is_cold,
                           target_exists |-> r.target_exists,
                           previously_destroyed |-> r.previously_destroyed]))

\* JournaledState::log; a log is identified by the step that emitted it.
Log ==
    /\ ~panicked /\ fuel > 0
    /\ Len(logs) < MaxLogs
    /\ logs' = Append(logs, fuel)
    /\ checkpoints' = Noted("log")
    /\ fuel' = fuel - 1
    /\ lastOp' = OpRecord("log", 0, 0, 0, 0, TRUE)
    /\ UNCHANGED <<state, journal, depth, is_before_spurious_dragon, panicked>>
    /\ UNCHANGED not_journal

\* JournaledState::checkpoint.  The checkpoint handed out is kept, with the
\* state and logs of that moment, until it is committed or reverted.
Checkpoint ==
    /\ ~panicked /\ fuel > 0
    /\ checkpoints' = Append(Noted("checkpoint"),
                             [log_i |-> Len(logs), journal_i |-> Len(journal),
                              snap |-> state, snaplogs |-> logs, snapjournal |-> journal,
                              ops |-> {}, inner |-> FALSE])
    /\ depth' = depth + 1
    /\ journal' = Append(journal, << >>)
    /\ fuel' = fuel - 1
    /\ lastOp' = OpRecord("checkpoint", 0, 0, 0, 0, TRUE)
    /\ UNCHANGED <<state, logs, is_before_spurious_dragon, panicked>>
    /\ UNCHANGED not_journal

\* JournaledState::checkpoint_commit, of the innermost open checkpoint.
CheckpointCommit ==
    /\ ~panicked /\ fuel > 0
    /\ checkpoints # << >>
    /\ depth' = depth - 1
    /\ LET n == Len(checkpoints)
           rest == SubSeq(Noted("checkpoint_commit"), 1, n - 1)
       IN checkpoints' = [i \in DOMAIN rest |->
                             IF i = n - 1 THEN [rest[i] EXCEPT !.inner = TRUE] ELSE rest[i]]
    /\ fuel' = fuel - 1
    /\ lastOp' = OpRecord("checkpoint_commit", 0, 0, 0, 0, TRUE)
    /\ UNCHANGED <<state, logs, journal, is_before_spurious_dragon, panicked>>
    /\ UNCHANGED not_journal

\* JournaledState::checkpoint_revert, of the innermost open checkpoint.
CheckpointRevert ==
    /\ ~panicked /\ fuel > 0
    /\ checkpoints # << >>
    /\ LET n == Len(checkpoints)
           cp == checkpoints[n]
           r == checkpoint_revert(state, logs, journal, cp, is_before_spurious_dragon)
       IN /\ IF r.ok
             THEN /\ state' = r.st
                  /\ logs' = r.lg
                  /\ journal' = r.jl
                  /\ depth' = depth - 1
                  /\ panicked' = FALSE
             ELSE /\ panicked' = TRUE
                  /\ UNCHANGED <<state, logs, journal, depth>>
          /\ checkpoints' = SubSeq(Noted("checkpoint_revert"), 1, n - 1)
          /\ lastOp' = [op |-> "checkpoint_revert", res |-> r.ok,
                        pre |-> state, prej |-> journal, prelogs |-> logs,
                        cp |-> cp]
    /\ fuel' = fuel - 1
    /\ UNCHANGED is_before_spurious_dragon
    /\ UNCHANGED not_journal

\* JournaledState::finalize, called once every checkpoint is closed.
Finalize ==
    /\ ~panicked /\ fuel > 0
    /\ checkpoints = << >>
    /\ state' = << >>
    /\ logs' = << >>
    /\ journal' = << << >> >>
    /\ depth' = 0
    /\ fuel' = fuel - 1
    /\ lastOp' = OpRecord("finalize", 0, 0, 0, 0, <<state, logs>>)
    /\ UNCHANGED <<is_before_spurious_dragon, panicked, checkpoints>>
    /\ UNCHANGED not_journal

\* JournaledState::new / new_legacy, with the number of operations to come.
JNew(budget) ==
    /\ state = << >>
    /\ logs = << >>
    /\ journal = << << >> >>
    /\ depth = 0
    /\ panicked = FALSE
    /\ checkpoints = << >>
    /\ fuel = budget
    /\ lastOp = [op |-> "new"]

\* ------------------------------------------------------------- gas meter

\* u64 is 0 .. 2^GasBits - 1 and i64 is -2^(GasBits-1) .. 2^(GasBits-1) - 1.
GasBits == 6
\* Largest tx.gas_limit.
MaxGasLimit == 12
\* Largest magnitude of the refund counter a frame returns.
MaxRefund == 4
\* Largest effective gas price.
MaxPrice == 2

\* specification.rs: SpecId
BERLIN == 11
LONDON == 12
CANCUN == 17
SpecIds == {BERLIN, LONDON, CANCUN}
\* SpecId::enabled
enabled(our, other) == our >= other

U64_RANGE == 2 ^ GasBits
\* `x as u64` of an i64, and u64 arithmetic of a build without overflow checks.
as_u64(x) == x % U64_RANGE
\* `x as i64` of a u64.
as_i64(x) == IF x % U64_RANGE >= U64_RANGE \div 2 THEN (x % U64_RANGE) - U64_RANGE
             ELSE x % U64_RANGE
\* A u64 sum or difference left the range of u64 (a build with overflow
\* checks panics there).
u64_overflows(x) == x < 0 \/ x >= U64_RANGE

Min(x, y) == IF x <= y THEN x ELSE y
Max(x, y) == IF x >= y THEN x ELSE y
\* U256::saturating_add, U256::saturating_sub, U256::saturating_mul
saturating_add(x, y) == Min(x + y, MaxWord)
saturating_sub(x, y) == Max(x - y, 0)
saturating_mul(x, y) == Min(x * y, MaxWord)

\* Gas (interpreter crate): limit and remaining are u64, refunded is i64.
GasNew(limit) == [limit |-> limit, remaining |-> limit, refunded |-> 0]
\* Gas::record_cost: false, and nothing changed, when the cost exceeds remaining.
record_cost(gas, cost) ==
    IF gas.remaining < cost THEN gas ELSE [gas EXCEPT !.remaining = @ - cost]
\* Gas::erase_cost
erase_cost(gas, returned) == [gas EXCEPT !.remaining = as_u64(@ + returned)]
\* Gas::record_refund
record_refund(gas, refund) == [gas EXCEPT !.refunded = as_i64(as_u64(@ + refund))]
\* Gas::set_refund
set_refund(gas, refund) == [gas EXCEPT !.refunded = refund]
\* Gas::spent (spend in the older revision): limit - remaining
spent(gas) == gas.limit - gas.remaining

\* InstructionResult and the classes of the macros return_ok! and return_revert!
return_ok == {"Stop", "Return", "SelfDestruct"}
return_revert == {"Revert"}
HaltResults == {"OutOfGas", "OpcodeNotFound", "InvalidJump", "StackUnderflow",
                "StackOverflow", "CallNotAllowedInsideStatic", "CreateCollision",
                "PrecompileError"}
InstructionResults == return_ok \cup return_revert \cup HaltResults
\* SuccessOrHalt::from(InstructionResult)
SuccessOrHalt(call_result) ==
    IF call_result \in return_ok THEN "Success"
    ELSE IF call_result \in return_revert THEN "Revert"
    ELSE "Halt"

\* handle_call_return that hands the refund counter back on a revert as well
handle_call_return_refund_on_revert(env, call_result, returned_gas) ==
    LET tx_gas_limit == env.tx.gas_limit
        gas == record_cost(GasNew(tx_gas_limit), tx_gas_limit)
    IN IF call_result \in return_ok \cup return_revert
       THEN record_refund(erase_cost(gas, returned_gas.remaining), returned_gas.refunded)
       ELSE gas

\* mainnet.rs: handle_call_return
handle_call_return(env, call_result, returned_gas) ==
    LET tx_gas_limit == env.tx.gas_limit
        \* Spend the gas limit. Gas is reimbursed when the tx returns successfully.
        gas == record_cost(GasNew(tx_gas_limit), tx_gas_limit)
    IN IF call_result \in return_ok
       THEN record_refund(erase_cost(gas, returned_gas.remaining), returned_gas.refunded)
       ELSE IF call_result \in return_revert
       THEN erase_cost(gas, returned_gas.remaining)
       ELSE gas

\* mainnet.rs: calculate_gas_refund
calculate_gas_refund(SPEC, env, gas) ==
    IF env.cfg.is_gas_refund_disabled
    THEN 0
    ELSE LET max_refund_quotient == IF enabled(SPEC, LONDON) THEN 5 ELSE 2
         IN Min(as_u64(gas.refunded), spent(gas) \div max_refund_quotient)

\* Env::effective_gas_price
effective_gas_price(env) == env.tx.gas_price

\* Account::mark_touch
mark_touch(account) == [account EXCEPT !.status = @ \cup {Touched}]

\* mainnet.rs: deduct_caller, on (state, journal)
deduct_caller(SPEC, st, jl, env) ==
    LET r == load_account(st, jl, env.tx.caller)
        caller_account == r.st[env.tx.caller]
        gas_cost0 == saturating_mul(env.tx.gas_limit, effective_gas_price(env))
        gas_cost == IF enabled(SPEC, CANCUN)
                    THEN saturating_add(gas_cost0, env.data_fee)
                    ELSE gas_cost0
        a1 == [caller_account EXCEPT
                 !.info.balance = saturating_sub(@, gas_cost)]
        a2 == mark_touch(a1)
        a3 == IF env.tx.transact_to = "Call"
              THEN [a2 EXCEPT !.info.nonce = Min(@ + 1, MaxNonce)]
              ELSE a2
    IN [st |-> MapPut(r.st, env.tx.caller, a3), jl |-> r.jl]

\* The gas units reimburse_caller pays for: remaining + refunded as u64
reimbursed_gas(gas) == gas.remaining + as_u64(gas.refunded)
\* The gas units reward_beneficiary and output count: spent - refunded as u64
charged_gas(gas) == spent(gas) - as_u64(gas.refunded)

\* reimburse_caller that forgets the refund
reimburse_caller_no_refund(st, jl, env, gas) ==
    LET caller == env.tx.caller
        r == load_account(st, jl, caller)
        caller_account == r.st[caller]
        units == as_u64(gas.remaining)
    IN [st |-> MapPut(r.st, caller,
                      [caller_account EXCEPT !.info.balance =
                          saturating_add(@, effective_gas_price(env) * units)]),
        jl |-> r.jl, units |-> units, overflow |-> FALSE]

\* post_execution.rs: reimburse_caller, on (state, journal)
reimburse_caller(st, jl, env, gas) ==
    LET caller == env.tx.caller
        r == load_account(st, jl, caller)
        caller_account == r.st[caller]
        units == as_u64(reimbursed_gas(gas))
    IN [st |-> MapPut(r.st, caller,
                      [caller_account EXCEPT !.info.balance =
                          saturating_add(@, effective_gas_price(env) * units)]),
        jl |-> r.jl, units |-> units, overflow |-> u64_overflows(reimbursed_gas(gas))]

\* post_execution.rs: reward_beneficiary, on (state, journal)
reward_beneficiary(SPEC, st, jl, env, gas) ==
    LET beneficiary == env.block.coinbase
        coinbase_gas_price == IF enabled(SPEC, LONDON)
                              THEN saturating_sub(effective_gas_price(env), env.block.basefee)
                              ELSE effective_gas_price(env)
        r == load_account(st, jl, beneficiary)
        coinbase_account == mark_touch(r.st[beneficiary])
        units == as_u64(charged_gas(gas))
    IN [st |-> MapPut(r.st, beneficiary,
                      [coinbase_account EXCEPT !.info.balance =
                          saturating_add(@, coinbase_gas_price * units)]),
        jl |-> r.jl, units |-> units, overflow |-> u64_overflows(charged_gas(gas))]

\* post_execution.rs: output; the ExecutionResult, without logs and output
\* bytes (gas_refunded is a field of Success only: 0 stands for its absence)
output(call_result, gas) ==
    LET gas_refunded == as_u64(gas.refunded)
        final_gas_used == as_u64(spent(gas) - gas_refunded)
    IN IF SuccessOrHalt(call_result) = "Success"
       THEN [kind |-> "Success", reason |-> call_result, gas_used |-> final_gas_used,
             gas_refunded |-> gas_refunded]
       ELSE IF SuccessOrHalt(call_result) = "Revert"
       THEN [kind |-> "Revert", reason |-> call_result, gas_used |-> final_gas_used,
             gas_refunded |-> 0]
       ELSE [kind |-> "Halt", reason |-> call_result, gas_used |-> final_gas_used,
             gas_refunded |-> 0]

NoGas == GasNew(0)
NoOut == [reimbursed |-> 0, rewarded |-> 0, overflow |-> FALSE, call_gas |-> NoGas,
          result |-> [kind |-> "None", reason |-> "None", gas_used |-> 0, gas_refunded |-> 0]]
NoFrame == [result |-> "None", gas |-> NoGas]

\* ----------------------------------------------------------------- stack

\* Number of stack operations in one behaviour of SpecStack.
MaxStackOps == 3

\* stack.rs: STACK_LIMIT
STACK_LIMIT == 1024

\* A U256 is its four u64 limbs, least significant first (U256.0); a u64 is
\* the number its eight bytes spell.
ZeroBytes(n) == [i \in 1 .. n |-> 0]
RECURSIVE from_be_bytes_acc(_, _, _)
from_be_bytes_acc(bytes, i, acc) ==
    IF i > Len(bytes) THEN acc
    ELSE from_be_bytes_acc(bytes, i + 1, acc * 256 + bytes[i])
\* u64::from_be_bytes
from_be_bytes(bytes) == from_be_bytes_acc(bytes, 1, 0)
\* arrayref::array_ref!(slice, offset, len)
array_ref(slice, offset, len) == SubSeq(slice, offset + 1, offset + len)
\* U256::zero, U256::from(u64)
U256Zero == <<0, 0, 0, 0>>
U256From(n) == <<n, 0, 0, 0>>
\* util::be_to_u256 of the 32 bytes of an H256
be_to_u256(value) ==
    <<from_be_bytes(array_ref(value, 24, 8)), from_be_bytes(array_ref(value, 16, 8)),
      from_be_bytes(array_ref(value, 8, 8)), from_be_bytes(array_ref(value, 0, 8))>>

StackOk(d, val) == [data |-> d, res |-> "Ok", val |-> val]
StackErr(d, err) == [data |-> d, res |-> err, val |-> << >>]
Truncate(d, n) == SubSeq(d, 1, n)

\* Stack::pop
pop(d) ==
    IF d = << >> THEN StackErr(d, "StackUnderflow")
    ELSE StackOk(Truncate(d, Len(d) - 1), <<d[Len(d)]>>)

\* Stack::pop2
pop2(d) ==
    IF Len(d) >= 2
    THEN StackOk(Truncate(d, Len(d) - 2), <<d[Len(d)], d[Len(d) - 1]>>)
    ELSE StackErr(d, "StackUnderflow")

\* Stack::pop3
pop3(d) ==
    IF Len(d) >= 3
    THEN StackOk(Truncate(d, Len(d) - 3), <<d[Len(d)], d[Len(d) - 1], d[Len(d) - 2]>>)
    ELSE StackErr(d, "StackUnderflow")

\* Stack::pop4
pop4(d) ==
    IF Len(d) >= 4
    THEN StackOk(Truncate(d, Len(d) - 4),
                 <<d[Len(d)], d[Len(d) - 1], d[Len(d) - 2], d[Len(d) - 3]>>)
    ELSE StackErr(d, "StackUnderflow")

\* Stack::push_h256
push_h256(d, value) ==
    IF Len(d) + 1 > STACK_LIMIT THEN StackErr(d, "StackOverflow")
    ELSE StackOk(Append(d, be_to_u256(value)), << >>)

\* Stack::push that checks the limit after the push
push_unchecked_limit(d, value) ==
    IF Len(d) > STACK_LIMIT THEN StackErr(d, "StackOverflow")
    ELSE StackOk(Append(d, value), << >>)

\* Stack::push
push(d, value) ==
    IF Len(d) + 1 > STACK_LIMIT THEN StackErr(d, "StackOverflow")
    ELSE StackOk(Append(d, value), << >>)

\* Stack::peek
peek(d, no_from_top) ==
    IF Len(d) > no_from_top THEN StackOk(d, <<d[Len(d) - no_from_top]>>)
    ELSE StackErr(d, "StackUnderflow")

\* Stack::dup<N>
dup(d, N) ==
    LET len == Len(d)
    IN IF len < N THEN StackErr(d, "StackUnderflow")
       ELSE IF len + 1 > STACK_LIMIT THEN StackErr(d, "StackOverflow")
       ELSE StackOk(Append(d, d[len - N + 1]), << >>)

\* Stack::swap<N>
swap(d, N) ==
    LET len == Len(d)
    IN IF len <= N THEN StackErr(d, "StackUnderflow")
       ELSE StackOk([d EXCEPT ![len] = d[len - N], ![len - N] = d[len]], << >>)

\* Stack::push_slice<N>: the slot the N bytes of the slice spell
slice_slot(N, slice) ==
    IF N < 8
    THEN <<from_be_bytes(ZeroBytes(8 - N) \o slice), 0, 0, 0>>
    ELSE IF N < 16
    THEN <<from_be_bytes(array_ref(slice, N - 8, 8)),
           IF N # 8 THEN from_be_bytes(ZeroBytes(8 * 2 - N) \o SubSeq(slice, 1, N - 8)) ELSE 0,
           0, 0>>
    ELSE IF N < 24
    THEN <<from_be_bytes(array_ref(slice, N - 8, 8)),
           from_be_bytes(array_ref(slice, N - 16, 8)),
           IF N # 16 THEN from_be_bytes(ZeroBytes(8 * 3 - N) \o SubSeq(slice, 1, N - 16)) ELSE 0,
           0>>
    ELSE <<from_be_bytes(array_ref(slice, N - 8, 8)),
           from_be_bytes(array_ref(slice, N - 16, 8)),
           from_be_bytes(array_ref(slice, N - 24, 8)),
           IF N = 32 THEN from_be_bytes(array_ref(slice, 0, 8))
           ELSE IF N # 24 THEN from_be_bytes(ZeroBytes(8 * 4 - N) \o SubSeq(slice, 1, N - 24))
           ELSE 0>>

\* Stack::push_slice<N>
push_slice(d, N, slice) ==
    LET new_len == Len(d) + 1
    IN IF new_len > STACK_LIMIT THEN StackErr(d, "StackOverflow")
       ELSE StackOk(Append(d, slice_slot(N, slice)), << >>)

\* Stack::set
set(d, no_from_top, val) ==
    IF Len(d) > no_from_top
    THEN StackOk([d EXCEPT ![Len(d) - no_from_top] = val], << >>)
    ELSE StackErr(d, "StackUnderflow")

\* ------------------------------------------------------------ frame loop

\* Iterations of run_the_loop a behaviour performs.
MaxLoopSteps == 3
\* Bytes the executing frame may add to the shared memory in one iteration.
MemoryGrowth == {0, 32}

\* pub const CALL_STACK_LIMIT: u64 = 1024
CALL_STACK_LIMIT == 1024

\* enum Frame { Call, Create, EOFCreate }: the kind, the journal checkpoint taken
\* for the frame, and the outcome of the child that last returned into it.
FrameKinds == {"Call", "Create", "EOFCreate"}
NoOutcome == [kind |-> "None", result |-> "None"]
Frame(kind, checkpoint) == [kind |-> kind, checkpoint |-> checkpoint, outcome |-> NoOutcome]

\* FrameResult::{Call, Create, EOFCreate}(outcome)
FrameResult(kind, result) == [kind |-> kind, result |-> result]
\* enum FrameOrResult { Frame(Frame), Result(FrameResult) }
FrameOrResult_Frame(frame) == [tag |-> "Frame", frame |-> frame]
FrameOrResult_Result(result) == [tag |-> "Result", result |-> result]

\* SharedMemory::new
SharedMemoryNew == [len |-> 0, checkpoints |-> << >>]
\* SharedMemory::new_context: a window that starts at the current length.
new_context(sm) == [sm EXCEPT !.checkpoints = Append(@, sm.len)]
\* SharedMemory::free_context: drop the last window and what it holds.
free_context(sm) ==
    IF sm.checkpoints = << >> THEN sm
    ELSE [len |-> sm.checkpoints[Len(sm.checkpoints)],
          checkpoints |-> SubSeq(sm.checkpoints, 1, Len(sm.checkpoints) - 1)]
\* SharedMemory::resize by the executing frame (its window only grows).
resize(sm, growth) == [sm EXCEPT !.len = @ + growth]

\* The frame depth test of frame construction, on the depth the journal has
\* once the frame's checkpoint is taken.
frame_depth_exceeded_before_checkpoint(journal_depth) == journal_depth - 1 > CALL_STACK_LIMIT
frame_depth_exceeded(journal_depth) == journal_depth > CALL_STACK_LIMIT

\* ExecutionHandler::call / create / eofcreate on (depth, journal): checkpoint
\* the journal and try to construct the child frame; on failure the checkpoint
\* is given up and the parent gets an immediate result.
make_frame(kind, dp, lg, jl, fails) ==
    LET checkpoint == [log_i |-> Len(lg), journal_i |-> Len(jl)]
        dp1 == dp + 1
        jl1 == Append(jl, << >>)
    IN IF frame_depth_exceeded(dp1)
       THEN [depth |-> dp1 - 1, journal |-> SubSeq(jl1, 1, checkpoint.journal_i),
             out |-> FrameOrResult_Result(FrameResult(kind, "CallTooDeep"))]
       ELSE IF fails
       THEN [depth |-> dp1 - 1, journal |-> SubSeq(jl1, 1, checkpoint.journal_i),
             out |-> FrameOrResult_Result(FrameResult(kind, "Revert"))]
       ELSE [depth |-> dp1, journal |-> jl1,
             out |-> FrameOrResult_Frame(Frame(kind, checkpoint))]

\* ExecutionHandler::call_return / create_return / eofcreate_return on
\* (depth, journal): commit the frame's checkpoint on success, revert it otherwise.
frame_return(frame, result, dp, jl) ==
    IF result \in return_ok
    THEN [depth |-> dp - 1, journal |-> jl, result |-> FrameResult(frame.kind, result)]
    ELSE [depth |-> dp - 1, journal |-> SubSeq(jl, 1, frame.checkpoint.journal_i),
          result |-> FrameResult(frame.kind, result)]

\* ExecutionHandler::insert_call_outcome / insert_create_outcome /
\* insert_eofcreate_outcome: the parent frame takes the child's outcome.
insert_outcome(frame, result) == [frame EXCEPT !.outcome = result]

\* run_the_loop, FrameOrResult::Frame(frame): open a context and push the frame.
push_frame_no_context(cs, sm, frame) ==
    [call_stack |-> Append(cs, frame), shared_memory |-> sm]
push_frame(cs, sm, frame) ==
    [call_stack |-> Append(cs, frame), shared_memory |-> new_context(sm)]

\* run_the_loop up to its loop: a call stack that holds first_frame, and a
\* shared memory with one context.
enter_loop(first_frame) ==
    [call_stack |-> Append(<< >>, first_frame),
     shared_memory |-> new_context(SharedMemoryNew)]

\* pop_frame that frees the context and leaves the frame on the stack.
pop_frame_keeps_frame(cs, sm) ==
    [call_stack |-> cs, shared_memory |-> free_context(sm),
     returned_frame |-> cs[Len(cs)]]

\* run_the_loop, InterpreterAction::Return: free the context and pop the frame.
pop_frame(cs, sm) ==
    [call_stack |-> SubSeq(cs, 1, Len(cs) - 1), shared_memory |-> free_context(sm),
     returned_frame |-> cs[Len(cs)]]

\* run_the_loop, "handle result": what the loop does with a FrameOrResult.
handle_result_keeps_running(cs, sm, frame_or_result) ==
    IF frame_or_result.tag = "Frame"
    THEN LET r == push_frame(cs, sm, frame_or_result.frame)
         IN [call_stack |-> r.call_stack, shared_memory |-> r.shared_memory,
             pc |-> "running"]
    ELSE IF cs = << >>
    THEN [call_stack |-> cs, shared_memory |-> sm, pc |-> "running"]
    ELSE [call_stack |-> [cs EXCEPT ![Len(cs)] = insert_outcome(@, frame_or_result.result)],
          shared_memory |-> sm, pc |-> "running"]
handle_result(cs, sm, frame_or_result) ==
    IF frame_or_result.tag = "Frame"
    THEN LET r == push_frame(cs, sm, frame_or_result.frame)
         IN [call_stack |-> r.call_stack, shared_memory |-> r.shared_memory,
             pc |-> "running"]
    ELSE IF cs = << >>
    THEN [call_stack |-> cs, shared_memory |-> sm, pc |-> "returned"]
    ELSE [call_stack |-> [cs EXCEPT ![Len(cs)] = insert_outcome(@, frame_or_result.result)],
          shared_memory |-> sm, pc |-> "running"]

\* --------------------------------------------------------- instructions

\* u64 and usize of the instructions are InterpBits wide; a U256 is any natural.
InterpBits == 16
INTERP_U64_MAX == 2 ^ InterpBits - 1
USIZE_MAX == 2 ^ InterpBits - 1
\* A word beyond u64 and usize.
HugeWord == 2 ^ InterpBits

\* SpecId
FRONTIER == 0
HOMESTEAD == 2
TANGERINE == 4
BYZANTIUM == 6
PETERSBURG == 8
SHANGHAI == 16

\* gas::{MID, HIGH, CREATE, CALL_STIPEND, INITCODE_WORD_COST, KECCAK256WORD}
MID == 8
HIGH == 10
CREATE == 32000
CALL_STIPEND == 2300
INITCODE_WORD_COST == 2
KECCAK256WORD == 6
\* MAX_INITCODE_SIZE = 2 * MAX_CODE_SIZE
MAX_INITCODE_SIZE == 2 * 24576

\* InterpreterAction
NoAction == [tag |-> "None"]

\* The instruction stops with a result; nothing else of the interpreter changes.
halt(i, result) == [i EXCEPT !.instruction_result = result]
Halted(i) == i.instruction_result # "Continue"
\* gas!: record the cost, or stop with OutOfGas.
gas_or_halt(i, cost) ==
    IF i.gas.remaining < cost THEN halt(i, "OutOfGas")
    ELSE [i EXCEPT !.gas = record_cost(@, cost)]
\* as_usize_or_fail!: the word does not fit usize.
exceeds_usize(v) == v > USIZE_MAX
\* u64::try_from(v).unwrap_or(u64::MAX)
u64_or_max(v) == IF v > INTERP_U64_MAX THEN INTERP_U64_MAX ELSE v
\* n pop! in a row, each of one word: when the stack runs out, the words
\* before are gone.
pop_each(d, n) ==
    IF Len(d) >= n THEN StackOk(Truncate(d, Len(d) - n), [k \in 1 .. n |-> d[Len(d) + 1 - k]])
    ELSE StackErr(<< >>, "StackUnderflow")
\* pop_address!: the low bytes of the word (an Address is AddressBits wide).
AddressBits == 8
to_address(word) == word % (2 ^ AddressBits)
\* gas::VERYLOW
VERYLOW == 3
\* Number of 32-byte words of len bytes.
num_words(len) == (len + 31) \div 32
\* gas::initcode_cost
initcode_cost(len) == INITCODE_WORD_COST * num_words(len)
\* gas::create2_cost
create2_cost(len) == CREATE + KECCAK256WORD * num_words(len)

\* JumpMap::is_valid, on the bits of the map (bit pc is at pc + 1).
is_valid_in_range(jump_map, pc) == pc < Len(jump_map)
is_valid(jump_map, pc) == pc < Len(jump_map) /\ jump_map[pc + 1]
\* Contract::is_valid_jump
is_valid_jump(contract, pos) == is_valid(contract.jump_map, pos)

\* jump / jumpi once dest is popped: relocate, or stop with InvalidJump.
jump_to(i, dest) ==
    IF exceeds_usize(dest) THEN halt(i, "InvalidJump")
    ELSE IF is_valid_jump(i.contract, dest)
    THEN [i EXCEPT !.instruction_pointer = dest]
    ELSE halt(i, "InvalidJump")

\* control::jump
jump(i) ==
    LET i1 == gas_or_halt(i, MID)
        p == pop(i1.stack)
    IN IF Halted(i1) THEN i1
       ELSE IF p.res # "Ok" THEN halt(i1, p.res)
       ELSE jump_to([i1 EXCEPT !.stack = p.data], p.val[1])

\* control::jumpi
jumpi(i) ==
    LET i1 == gas_or_halt(i, HIGH)
        p == pop2(i1.stack)
    IN IF Halted(i1) THEN i1
       ELSE IF p.res # "Ok" THEN halt(i1, p.res)
       ELSE LET dest == p.val[1]
                value == p.val[2]
                i2 == [i1 EXCEPT !.stack = p.data]
            IN IF value # 0 THEN jump_to(i2, dest) ELSE i2

\* shared_memory_resize!: the memory grows at the price mem_cost, or the
\* instruction stops with MemoryOOG.
shared_memory_resize(i, mem_cost) ==
    IF i.gas.remaining < mem_cost THEN halt(i, "MemoryOOG")
    ELSE [i EXCEPT !.gas = record_cost(@, mem_cost)]

\* The create cost is charged and r is left: what the child frame may use.
create_gas_limit_all(SPEC, remaining) == remaining
create_gas_limit(SPEC, remaining) ==
    IF enabled(SPEC, TANGERINE) THEN remaining - (remaining \div 64) ELSE remaining

\* contract::create<IS_CREATE2>; the memory holding the init code grows at the
\* price mem_cost.
create(IS_CREATE2, SPEC, i, mem_cost) ==
    IF i.is_static THEN halt(i, "StateChangeDuringStaticCall")
    ELSE IF IS_CREATE2 /\ ~enabled(SPEC, PETERSBURG) THEN halt(i, "NotActivated")
    ELSE LET p == pop3(i.stack) IN
    IF p.res # "Ok" THEN halt(i, p.res)
    ELSE LET value == p.val[1]
             code_offset == p.val[2]
             len == p.val[3]
             i1 == [i EXCEPT !.stack = p.data]
             \* if len != 0 { .. }
             i2 == IF len = 0 THEN i1
                   ELSE IF enabled(SPEC, SHANGHAI) /\ len > MAX_INITCODE_SIZE
                   THEN halt(i1, "CreateInitCodeSizeLimit")
                   ELSE LET g == IF enabled(SPEC, SHANGHAI)
                                 THEN gas_or_halt(i1, initcode_cost(len)) ELSE i1
                        IN IF Halted(g) THEN g
                           ELSE IF exceeds_usize(code_offset) THEN halt(g, "InvalidOperandOOG")
                           ELSE shared_memory_resize(g, mem_cost)
             \* let scheme = if IS_CREATE2 { .. } else { .. }
             s == IF IS_CREATE2 THEN pop(i2.stack) ELSE StackOk(i2.stack, <<0>>)
             i3 == IF s.res # "Ok" THEN halt(i2, s.res)
                   ELSE gas_or_halt([i2 EXCEPT !.stack = s.data],
                                    IF IS_CREATE2 THEN create2_cost(len) ELSE CREATE)
             gas_limit == create_gas_limit(SPEC, i3.gas.remaining)
             i4 == gas_or_halt(i3, gas_limit)
         IN IF exceeds_usize(len) THEN halt(i1, "InvalidOperandOOG")
            ELSE IF Halted(i2) THEN i2
            ELSE IF Halted(i3) THEN i3
            ELSE IF Halted(i4) THEN i4
            ELSE [i4 EXCEPT
                    !.next_action =
                        [tag |-> "Create",
                         inputs |-> [caller |-> i.contract.address,
                                     scheme |-> IF IS_CREATE2 THEN "Create2" ELSE "Create",
                                     value |-> value,
                                     gas_limit |-> gas_limit]],
                    !.instruction_result = "CallOrCreate"]

\* call_helpers::get_memory_input_and_out_ranges: pops in_offset, in_len,
\* out_offset, out_len and grows the memory over both ranges at the price
\* mem_cost. `ok` tells whether the ranges were obtained.
get_memory_input_and_out_ranges(i, mem_cost) ==
    LET p == pop4(i.stack) IN
    IF p.res # "Ok" THEN [ok |-> FALSE, i |-> halt(i, p.res)]
    ELSE LET in_offset == p.val[1]
             in_len == p.val[2]
             out_offset == p.val[3]
             out_len == p.val[4]
             i1 == [i EXCEPT !.stack = p.data]
             i2 == shared_memory_resize(i1, mem_cost)
         IN IF exceeds_usize(in_len) \/ exceeds_usize(out_len)
               \/ (in_len # 0 /\ exceeds_usize(in_offset))
               \/ (out_len # 0 /\ exceeds_usize(out_offset))
            THEN [ok |-> FALSE, i |-> halt(i1, "InvalidOperandOOG")]
            ELSE IF Halted(i2) THEN [ok |-> FALSE, i |-> i2]
            ELSE [ok |-> TRUE, i |-> i2,
                  input |-> <<in_offset, in_len>>,
                  return_memory_offset |-> <<out_offset, out_len>>]

\* call_helpers::calc_call_gas: the host loads the target (host_ok), the call
\* cost is charged, and the gas to forward is settled by EIP-150.
calc_call_gas(i, SPEC, host_ok, call_cost, local_gas_limit) ==
    IF ~host_ok THEN [ok |-> FALSE, i |-> halt(i, "FatalExternalError")]
    ELSE LET i1 == gas_or_halt(i, call_cost)
             remaining == i1.gas.remaining
         IN IF Halted(i1) THEN [ok |-> FALSE, i |-> i1]
            ELSE [ok |-> TRUE, i |-> i1,
                  gas_limit |-> IF enabled(SPEC, TANGERINE)
                                THEN Min(remaining - (remaining \div 64), local_gas_limit)
                                ELSE local_gas_limit]

\* call: `interpreter.is_static && value != U256::ZERO`
call_not_allowed_for_any_value(is_static, value) == is_static
call_not_allowed(is_static, value) == is_static /\ value # 0

\* The CallInputs of call, call_code, delegate_call and static_call.
call_inputs(i, to, value, input, gas_limit, return_memory_offset) ==
    [contract |-> to,
     transfer |-> [source |-> i.contract.address, target |-> to, value |-> value],
     input |-> input,
     gas_limit |-> gas_limit,
     context |-> [address |-> to, caller |-> i.contract.address, code_address |-> to,
                  apparent_value |-> value, scheme |-> "Call"],
     is_static |-> i.is_static,
     return_memory_offset |-> return_memory_offset]
call_code_inputs(i, to, value, input, gas_limit, return_memory_offset) ==
    [contract |-> to,
     transfer |-> [source |-> i.contract.address, target |-> i.contract.address,
                   value |-> value],
     input |-> input,
     gas_limit |-> gas_limit,
     context |-> [address |-> i.contract.address, caller |-> i.contract.address,
                  code_address |-> to, apparent_value |-> value, scheme |-> "CallCode"],
     is_static |-> i.is_static,
     return_memory_offset |-> return_memory_offset]
delegate_call_inputs_not_static(i, to, input, gas_limit, return_memory_offset) ==
    [contract |-> to,
     transfer |-> [source |-> i.contract.address, target |-> i.contract.address, value |-> 0],
     input |-> input,
     gas_limit |-> gas_limit,
     context |-> [address |-> i.contract.address, caller |-> i.contract.caller,
                  code_address |-> to, apparent_value |-> i.contract.value,
                  scheme |-> "DelegateCall"],
     is_static |-> FALSE,
     return_memory_offset |-> return_memory_offset]
delegate_call_inputs(i, to, input, gas_limit, return_memory_offset) ==
    [contract |-> to,
     transfer |-> [source |-> i.contract.address, target |-> i.contract.address, value |-> 0],
     input |-> input,
     gas_limit |-> gas_limit,
     context |-> [address |-> i.contract.address, caller |-> i.contract.caller,
                  code_address |-> to, apparent_value |-> i.contract.value,
                  scheme |-> "DelegateCall"],
     is_static |-> i.is_static,
     return_memory_offset |-> return_memory_offset]
static_call_inputs(i, to, input, gas_limit, return_memory_offset) ==
    [contract |-> to,
     transfer |-> [source |-> i.contract.address, target |-> i.contract.address, value |-> 0],
     input |-> input,
     gas_limit |-> gas_limit,
     context |-> [address |-> to, caller |-> i.contract.address, code_address |-> to,
                  apparent_value |-> 0, scheme |-> "StaticCall"],
     is_static |-> TRUE,
     return_memory_offset |-> return_memory_offset]

\* The instruction suspends the frame with a call for the host.
suspend_with_call(i, inputs) ==
    [i EXCEPT !.next_action = [tag |-> "Call", inputs |-> inputs],
              !.instruction_result = "CallOrCreate"]

\* contract::call
call(SPEC, i, host_ok, call_cost, mem_cost) ==
    LET p == pop_each(i.stack, 3) IN
    IF p.res # "Ok" THEN halt([i EXCEPT !.stack = p.data], p.res)
    ELSE LET local_gas_limit == u64_or_max(p.val[1])
             to == to_address(p.val[2])
             value == p.val[3]
             i1 == [i EXCEPT !.stack = p.data]
             m == get_memory_input_and_out_ranges(i1, mem_cost)
             c == calc_call_gas(m.i, SPEC, host_ok, call_cost, local_gas_limit)
             i2 == gas_or_halt(c.i, c.gas_limit)
             gas_limit == IF value # 0 THEN Min(c.gas_limit + CALL_STIPEND, INTERP_U64_MAX)
                          ELSE c.gas_limit
         IN IF call_not_allowed(i1.is_static, value)
            THEN halt(i1, "CallNotAllowedInsideStatic")
            ELSE IF ~m.ok THEN m.i
            ELSE IF ~c.ok THEN c.i
            ELSE IF Halted(i2) THEN i2
            ELSE suspend_with_call(i2, call_inputs(i2, to, value, m.input, gas_limit,
                                                   m.return_memory_offset))

\* contract::call_code
call_code(SPEC, i, host_ok, call_cost, mem_cost) ==
    LET p == pop_each(i.stack, 3) IN
    IF p.res # "Ok" THEN halt([i EXCEPT !.stack = p.data], p.res)
    ELSE LET local_gas_limit == u64_or_max(p.val[1])
             to == to_address(p.val[2])
             value == p.val[3]
             i1 == [i EXCEPT !.stack = p.data]
             m == get_memory_input_and_out_ranges(i1, mem_cost)
             c == calc_call_gas(m.i, SPEC, host_ok, call_cost, local_gas_limit)
             i2 == gas_or_halt(c.i, c.gas_limit)
             gas_limit == IF value # 0 THEN Min(c.gas_limit + CALL_STIPEND, INTERP_U64_MAX)
                          ELSE c.gas_limit
         IN IF ~m.ok THEN m.i
            ELSE IF ~c.ok THEN c.i
            ELSE IF Halted(i2) THEN i2
            ELSE suspend_with_call(i2, call_code_inputs(i2, to, value, m.input, gas_limit,
                                                        m.return_memory_offset))

\* delegate_call and static_call after their hardfork check.
call_without_value(SPEC, i, host_ok, call_cost, mem_cost, is_delegate) ==
    LET p == pop_each(i.stack, 2) IN
    IF p.res # "Ok" THEN halt([i EXCEPT !.stack = p.data], p.res)
    ELSE LET local_gas_limit == u64_or_max(p.val[1])
             to == to_address(p.val[2])
             i1 == [i EXCEPT !.stack = p.data]
             m == get_memory_input_and_out_ranges(i1, mem_cost)
             c == calc_call_gas(m.i, SPEC, host_ok, call_cost, local_gas_limit)
             i2 == gas_or_halt(c.i, c.gas_limit)
         IN IF ~m.ok THEN m.i
            ELSE IF ~c.ok THEN c.i
            ELSE IF Halted(i2) THEN i2
            ELSE suspend_with_call(i2,
                    IF is_delegate
                    THEN delegate_call_inputs(i2, to, m.input, c.gas_limit,
                                              m.return_memory_offset)
                    ELSE static_call_inputs(i2, to, m.input, c.gas_limit,
                                            m.return_memory_offset))

\* contract::delegate_call
delegate_call(SPEC, i, host_ok, call_cost, mem_cost) ==
    IF ~enabled(SPEC, HOMESTEAD) THEN halt(i, "NotActivated")
    ELSE call_without_value(SPEC, i, host_ok, call_cost, mem_cost, TRUE)

\* contract::static_call
static_call(SPEC, i, host_ok, call_cost, mem_cost) ==
    IF ~enabled(SPEC, BYZANTIUM) THEN halt(i, "NotActivated")
    ELSE call_without_value(SPEC, i, host_ok, call_cost, mem_cost, FALSE)

\* stack::push<32>, once for each of the words (the last ends on top); the
\* instruction pointer passes the opcode and its 32 bytes.
RECURSIVE push_words(_, _)
push_words(i, words) ==
    IF words = << >> \/ Halted(i) THEN i
    ELSE LET g == gas_or_halt(i, VERYLOW)
             r == push(g.stack, Head(words))
         IN IF Halted(g) THEN g
            ELSE IF r.res # "Ok" THEN halt(g, r.res)
            ELSE push_words([g EXCEPT !.stack = r.data, !.instruction_pointer = @ + 33],
                            Tail(words))

\* Interpreter::new for the frame the host builds from CallInputs.
InterpreterNew(contract, gas_limit, is_static) ==
    [stack |-> << >>,
     gas |-> GasNew(gas_limit),
     is_static |-> is_static,
     instruction_pointer |-> 0,
     instruction_result |-> "Continue",
     next_action |-> NoAction,
     contract |-> contract]

\* ------------------------------------------------------------ behaviours

\* No transaction is being settled.
GasIdle ==
    /\ tx_env = [cfg |-> [spec_id |-> CANCUN]]
    /\ tx_frame = NoFrame
    /\ tx_gas = NoGas
    /\ tx_out = NoOut
    /\ tx_pc = "idle"

\* No stack is operated on.
StackIdle ==
    /\ data = << >>
    /\ stackOp = [op |-> "new", n |-> 0, res |-> "Ok", val |-> << >>, pre |-> << >>]
    /\ sfuel = 0

\* No frame loop is running.
NoLoopStep ==
    [action |-> "None", out |-> "None", result |-> "None",
     pre_frames |-> 0, pre_contexts |-> 0, pre_depth |-> 0, pre_stack |-> << >>]
LoopIdle ==
    /\ call_stack = << >>
    /\ shared_memory = SharedMemoryNew
    /\ loop_pc = "idle"
    /\ loop_step = NoLoopStep
    /\ lfuel = 0

\* No instruction is executed.
NoContract == [address |-> 0, caller |-> 0, value |-> 0, jump_map |-> << >>]
NoInstr == [op |-> "None", pre |-> InterpreterNew(NoContract, 0, FALSE),
            host_ok |-> TRUE, call_cost |-> 0, mem_cost |-> 0]
InterpIdle ==
    /\ interpreter = InterpreterNew(NoContract, 0, FALSE)
    /\ parents = << >>
    /\ instr = NoInstr
    /\ ifuel = 0

\* No entry point of Evm is called.
NoEvm ==
    [entry |-> "None", pc |-> "idle", env_valid |-> TRUE, caller_valid |-> TRUE,
     db_fails |-> FALSE, first_fails |-> FALSE, script |-> << >>, executed |-> 0,
     next_action |-> "None", error |-> "None", output |-> "None",
     cleared |-> 0, committed |-> FALSE]
EvmIdle == evm = NoEvm
NoFetch == [ip |-> 0, at |-> "start", op |-> 0, slice |-> << >>, in_bounds |-> TRUE]
NoArith == [op |-> "None", a |-> 0, b |-> 0, res |-> 0]
NoHandler == [spec_id |-> 0, instantiated |-> 0, registers |-> << >>, handles |-> << >>]
NoRegistered == [calls |-> << >>, appended |-> << >>, op |-> "None", out |-> "None",
                 pre |-> NoHandler, pre_calls |-> << >>, fuel |-> 0]
HandlerIdle == handler = NoHandler /\ registered = NoRegistered
PureIdle ==
    /\ bytecode = [bytecode |-> << >>, state |-> [tag |-> "Raw"]]
    /\ fetch = NoFetch
    /\ arith = NoArith
    /\ HandlerIdle

\* A journaled state nothing is called on, of a Spurious Dragon chain.
JIdle == JNew(0) /\ is_before_spurious_dragon = FALSE

JInit(budget) ==
    /\ JNew(budget)
    /\ is_before_spurious_dragon \in BOOLEAN
    /\ GasIdle
    /\ StackIdle
    /\ LoopIdle
    /\ InterpIdle
    /\ EvmIdle
    /\ PureIdle

\* The arguments the operations are tried with.
Amounts == {1, 2}
NewValues == {0, 2}
NewCodes == {"B"}

vars == <<jvars, gvars, svars, lvars, ivars, evars, pvars, hvars>>

\* Every operation of the journaled state, on every address.
Init == JInit(MaxOps)

Next ==
    \/ \E a \in Addr : LoadAccount(a)
    \/ \E a \in Addr : LoadAccountExist(a)
    \/ \E a \in Addr : LoadCode(a)
    \/ \E a \in Addr : Touch(a)
    \/ \E a \in Addr, code \in NewCodes : SetCode(a, code)
    \/ \E a \in Addr : IncNonce(a)
    \/ \E from \in Addr, to \in Addr, balance \in Amounts : Transfer(from, to, balance)
    \/ \E a \in Addr : CreateAccount(a)
    \/ \E a \in Addr, key \in Keys : SLoad(a, key)
    \/ \E a \in Addr, key \in Keys, new \in NewValues : SStore(a, key, new)
    \/ \E a \in Addr, target \in Addr : SelfDestruct(a, target)
    \/ Log
    \/ Checkpoint
    \/ CheckpointCommit
    \/ CheckpointRevert
    \/ Finalize

Spec == Init /\ [][Next]_vars

\* Checkpoints around the journaled mutations of the contract 0x04 and the
\* account 0x05: longer behaviours over fewer arguments.
RevertInit == JInit(MaxRevertOps)

RevertNext ==
    \/ \E a \in {4} : LoadAccount(a)
    \/ \E from \in {4}, to \in {5}, balance \in Amounts : Transfer(from, to, balance)
    \/ \E a \in {4}, key \in Keys, new \in NewValues : SStore(a, key, new)
    \/ \E a \in {4} : IncNonce(a)
    \/ \E a \in {4}, code \in NewCodes : SetCode(a, code)
    \/ Log
    \/ Checkpoint
    \/ CheckpointCommit
    \/ CheckpointRevert

SpecRevert == RevertInit /\ [][RevertNext]_vars

NestedInit == JInit(MaxNestedOps)

SpecNested == NestedInit /\ [][RevertNext]_vars

\* The transactions tried: hardfork, refund switch, gas limit, price and the
\* intrinsic gas validation has charged (initial_gas_spend).
TxEnvs ==
    { [cfg |-> [spec_id |-> s, is_gas_refund_disabled |-> d],
       block |-> [coinbase |-> 4, basefee |-> 1],
       tx |-> [caller |-> 5, gas_limit |-> l, gas_price |-> p, transact_to |-> "Call"],
       data_fee |-> 0,
       initial_gas_spend |-> i] :
      s \in SpecIds, d \in BOOLEAN, l \in {MaxGasLimit}, p \in {MaxPrice}, i \in {0, 2} }
\* The refund counters a frame may come back with.
Refunds == (0 - MaxRefund) .. MaxRefund

\* evm.rs, transact_preverified_inner: pre_exec.deduct_caller
DeductCaller ==
    /\ tx_pc = "deduct_caller"
    /\ LET r == deduct_caller(tx_env.cfg.spec_id, state, journal, tx_env)
       IN state' = r.st /\ journal' = r.jl
    /\ tx_pc' = "execute"
    /\ UNCHANGED <<logs, depth, is_before_spurious_dragon, panicked, checkpoints, fuel, lastOp>>
    /\ UNCHANGED <<tx_env, tx_frame, tx_gas, tx_out>>
    /\ UNCHANGED not_gas

\* evm.rs, transact_preverified_inner: the first frame is given
\* tx.gas_limit - initial_gas_spend and run to its end; it comes back with any
\* result, any remaining gas up to its limit and any refund counter.
Execute(call_result, remaining, refunded) ==
    /\ tx_pc = "execute"
    /\ LET gas_limit == tx_env.tx.gas_limit - tx_env.initial_gas_spend
       IN /\ remaining <= gas_limit
          /\ tx_frame' = [result |-> call_result,
                          gas |-> [limit |-> gas_limit, remaining |-> remaining,
                                   refunded |-> refunded]]
    /\ tx_pc' = "handle_call_return"
    /\ UNCHANGED <<jvars, tx_env, tx_gas, tx_out, not_gas>>

\* handler: call_return
HandleCallReturn ==
    /\ tx_pc = "handle_call_return"
    /\ tx_gas' = handle_call_return(tx_env, tx_frame.result, tx_frame.gas)
    /\ tx_pc' = "calculate_gas_refund"
    /\ UNCHANGED <<jvars, tx_env, tx_frame, tx_out, not_gas>>

\* handler: calculate_gas_refund; the refund becomes the Gas's refunded
CalculateGasRefund ==
    /\ tx_pc = "calculate_gas_refund"
    /\ tx_gas' = set_refund(tx_gas,
                            as_i64(calculate_gas_refund(tx_env.cfg.spec_id, tx_env, tx_gas)))
    /\ tx_out' = [tx_out EXCEPT !.call_gas = tx_gas]
    /\ tx_pc' = "reimburse_caller"
    /\ UNCHANGED <<jvars, tx_env, tx_frame, not_gas>>

\* post_exec.reimburse_caller
ReimburseCaller ==
    /\ tx_pc = "reimburse_caller"
    /\ LET r == reimburse_caller(state, journal, tx_env, tx_gas)
       IN /\ state' = r.st /\ journal' = r.jl
          /\ tx_out' = [tx_out EXCEPT !.reimbursed = r.units,
                                      !.overflow = @ \/ r.overflow]
    /\ tx_pc' = "reward_beneficiary"
    /\ UNCHANGED <<logs, depth, is_before_spurious_dragon, panicked, checkpoints, fuel, lastOp>>
    /\ UNCHANGED <<tx_env, tx_frame, tx_gas, not_gas>>

\* post_exec.reward_beneficiary
RewardBeneficiary ==
    /\ tx_pc = "reward_beneficiary"
    /\ LET r == reward_beneficiary(tx_env.cfg.spec_id, state, journal, tx_env, tx_gas)
       IN /\ state' = r.st /\ journal' = r.jl
          /\ tx_out' = [tx_out EXCEPT !.rewarded = r.units,
                                      !.overflow = @ \/ r.overflow]
    /\ tx_pc' = "output"
    /\ UNCHANGED <<logs, depth, is_before_spurious_dragon, panicked, checkpoints, fuel, lastOp>>
    /\ UNCHANGED <<tx_env, tx_frame, tx_gas, not_gas>>

\* post_exec.output: the result is built and the journal is finalized
Output ==
    /\ tx_pc = "output"
    /\ tx_out' = [tx_out EXCEPT !.result = output(tx_frame.result, tx_gas),
                                !.overflow = @ \/ u64_overflows(charged_gas(tx_gas))]
    /\ state' = << >>
    /\ logs' = << >>
    /\ journal' = << << >> >>
    /\ depth' = 0
    /\ tx_pc' = "done"
    /\ UNCHANGED <<is_before_spurious_dragon, panicked, checkpoints, fuel, lastOp>>
    /\ UNCHANGED <<tx_env, tx_frame, tx_gas, not_gas>>

\* A transaction that passed validation, before the caller is charged.
GasInit ==
    /\ JIdle
    /\ StackIdle
    /\ LoopIdle
    /\ InterpIdle
    /\ EvmIdle
    /\ PureIdle
    /\ tx_env \in TxEnvs
    /\ tx_frame = NoFrame
    /\ tx_gas = NoGas
    /\ tx_out = NoOut
    /\ tx_pc = "deduct_caller"

GasNext ==
    \/ DeductCaller
    \/ \E call_result \in InstructionResults, remaining \in 0 .. MaxGasLimit,
          refunded \in Refunds : Execute(call_result, remaining, refunded)
    \/ HandleCallReturn
    \/ CalculateGasRefund
    \/ ReimburseCaller
    \/ RewardBeneficiary
    \/ Output

SpecGas == GasInit /\ [][GasNext]_vars

\* -------------------------------------------------------- stack: behaviours

\* A stack operation took place.
StackEffect(r, op, n) ==
    /\ sfuel > 0
    /\ data' = r.data
    /\ stackOp' = [op |-> op, n |-> n, res |-> r.res, val |-> r.val, pre |-> data]
    /\ sfuel' = sfuel - 1
    /\ UNCHANGED not_stack

Pop == StackEffect(pop(data), "pop", 1)
Pop2 == StackEffect(pop2(data), "pop2", 2)
Pop3 == StackEffect(pop3(data), "pop3", 3)
Pop4 == StackEffect(pop4(data), "pop4", 4)
Push(value) == StackEffect(push(data, value), "push", 0)
PushH256(value) == StackEffect(push_h256(data, value), "push_h256", 0)
PushSlice(N, slice) == StackEffect(push_slice(data, N, slice), "push_slice", N)
Peek(no_from_top) == StackEffect(peek(data, no_from_top), "peek", no_from_top)
Dup(N) == StackEffect(dup(data, N), "dup", N)
Swap(N) == StackEffect(swap(data, N), "swap", N)
Set(no_from_top, val) == StackEffect(set(data, no_from_top, val), "set", no_from_top)

\* A stack of n words, as n pushes leave it.
Filled(n) == [i \in 1 .. n |-> U256From(i % 4)]
\* The lengths the behaviours start from: around empty, around the deepest
\* DUP/SWAP, and around the limit.
StartLens == {0, 1, 2, 3, 4, 16, 17, STACK_LIMIT - 1, STACK_LIMIT}
\* N bytes whose every eighth byte, counted from the last, is b.
SliceOf(N, b) == [i \in 1 .. N |-> IF (N - i) % 8 = 0 THEN b ELSE 0]
SliceLens == {0, 1, 7, 8, 9, 16, 17, 24, 25, 32}
DupSwapN == {1, 2, 16}
PeekIndexes == {0, 1, 16}

StackInit ==
    /\ JIdle
    /\ GasIdle
    /\ LoopIdle
    /\ InterpIdle
    /\ EvmIdle
    /\ PureIdle
    /\ \E n \in StartLens : data = Filled(n)
    /\ stackOp = [op |-> "new", n |-> 0, res |-> "Ok", val |-> << >>, pre |-> << >>]
    /\ sfuel = MaxStackOps

StackNext ==
    \/ Pop
    \/ Pop2
    \/ Pop3
    \/ Pop4
    \/ \E value \in {U256From(7)} : Push(value)
    \/ \E value \in {SliceOf(32, 9)} : PushH256(value)
    \/ \E N \in SliceLens : PushSlice(N, SliceOf(N, 5))
    \/ \E no_from_top \in PeekIndexes : Peek(no_from_top)
    \/ \E N \in DupSwapN : Dup(N)
    \/ \E N \in DupSwapN : Swap(N)
    \/ \E no_from_top \in PeekIndexes, val \in {U256From(8)} : Set(no_from_top, val)

SpecStack == StackInit /\ [][StackNext]_vars

\* One iteration of run_the_loop; execute_frame may have grown the memory.
LoopStep(action, out, result) ==
    [action |-> action, out |-> out, result |-> result,
     pre_frames |-> Len(call_stack), pre_contexts |-> Len(shared_memory.checkpoints),
     pre_depth |-> depth, pre_stack |-> call_stack]

\* run_the_loop is called with the first frame of the transaction.
LoopEnter(kind) ==
    /\ loop_pc = "entry"
    /\ LET r == enter_loop(Frame(kind, [log_i |-> 0, journal_i |-> 1]))
       IN /\ call_stack' = r.call_stack
          /\ shared_memory' = r.shared_memory
    /\ loop_pc' = "running"
    /\ loop_step' = LoopStep("Enter", "Frame", "None")
    /\ UNCHANGED <<lfuel, jvars, not_loop>>

\* execute_frame, take_error, exec.call or exec.insert_*_outcome returned Err:
\* the `?` leaves run_the_loop.
LoopErr(growth) ==
    /\ loop_pc = "running" /\ lfuel > 0
    /\ shared_memory' = resize(shared_memory, growth)
    /\ loop_pc' = "error"
    /\ loop_step' = LoopStep("Err", "Err", "None")
    /\ lfuel' = lfuel - 1
    /\ UNCHANGED <<call_stack, jvars, not_loop>>

\* next_action is Call, Create or EOFCreate.
LoopCall(kind, fails, growth) ==
    /\ loop_pc = "running"
    /\ lfuel > 0
    /\ LET sm == resize(shared_memory, growth)
           m == make_frame(kind, depth, logs, journal, fails)
           r == handle_result(call_stack, sm, m.out)
       IN /\ depth' = m.depth
          /\ journal' = m.journal
          /\ call_stack' = r.call_stack
          /\ shared_memory' = r.shared_memory
          /\ loop_pc' = r.pc
          /\ loop_step' = LoopStep(kind, m.out.tag,
                                   IF m.out.tag = "Result" THEN m.out.result.result ELSE "None")
    /\ lfuel' = lfuel - 1
    /\ UNCHANGED <<state, logs, is_before_spurious_dragon, panicked, checkpoints, fuel, lastOp>>
    /\ UNCHANGED not_loop

\* next_action is Return: the frame's result goes to its parent, or ends the loop.
\* exec.*_return may itself return Err, after the frame is popped.
ReturnAction(result, handler_err, growth) ==
    /\ loop_pc = "running"
    /\ LET p == pop_frame(call_stack, resize(shared_memory, growth))
           f == frame_return(p.returned_frame, result, depth, journal)
           r == handle_result(p.call_stack, p.shared_memory, FrameOrResult_Result(f.result))
       IN IF handler_err
          THEN /\ call_stack' = p.call_stack
               /\ shared_memory' = p.shared_memory
               /\ loop_pc' = "error"
               /\ loop_step' = LoopStep("Return", "Err", result)
               /\ UNCHANGED <<depth, journal>>
          ELSE /\ depth' = f.depth
               /\ journal' = f.journal
               /\ call_stack' = r.call_stack
               /\ shared_memory' = r.shared_memory
               /\ loop_pc' = r.pc
               /\ loop_step' = LoopStep("Return", "Result", result)
    /\ UNCHANGED <<state, logs, is_before_spurious_dragon, panicked, checkpoints, fuel, lastOp>>
    /\ UNCHANGED not_loop

LoopReturn(result, handler_err, growth) ==
    /\ lfuel > 0
    /\ ReturnAction(result, handler_err, growth)
    /\ lfuel' = lfuel - 1

\* The frames on the stack when the behaviour starts: none yet (run_the_loop is
\* about to be called), a few, and around the limit.
StartFrames == {0, 2, CALL_STACK_LIMIT - 2, CALL_STACK_LIMIT - 1, CALL_STACK_LIMIT}
\* n nested frames that have run no state-changing instruction yet: each holds
\* the checkpoint taken for it, and has one memory window of MemoryWindow bytes.
MemoryWindow == 32
Nested(n) ==
    [i \in 1 .. n |-> Frame(IF i % 3 = 0 THEN "Create" ELSE "Call",
                            [log_i |-> 0, journal_i |-> i])]

LoopInit ==
    /\ GasIdle
    /\ StackIdle
    /\ InterpIdle
    /\ EvmIdle
    /\ PureIdle
    /\ state = << >>
    /\ logs = << >>
    /\ panicked = FALSE
    /\ checkpoints = << >>
    /\ fuel = 0
    /\ lastOp = [op |-> "new"]
    /\ is_before_spurious_dragon = FALSE
    /\ \E n \in StartFrames :
          /\ call_stack = Nested(n)
          /\ depth = Max(n, 1)
          /\ journal = [i \in 1 .. Max(n, 1) + 1 |-> << >>]
          /\ shared_memory = IF n = 0 THEN SharedMemoryNew
                             ELSE [len |-> (n - 1) * MemoryWindow,
                                   checkpoints |-> [i \in 1 .. n |-> (i - 1) * MemoryWindow]]
          /\ loop_pc = IF n = 0 THEN "entry" ELSE "running"
    /\ loop_step = NoLoopStep
    /\ lfuel = MaxLoopSteps

LoopNext ==
    \/ \E kind \in FrameKinds : LoopEnter(kind)
    \/ \E growth \in MemoryGrowth : LoopErr(growth)
    \/ \E kind \in FrameKinds, fails \in BOOLEAN, growth \in MemoryGrowth :
          LoopCall(kind, fails, growth)
    \/ \E result \in {"Return", "Revert", "OutOfGas"}, handler_err \in BOOLEAN,
          growth \in MemoryGrowth : LoopReturn(result, handler_err, growth)

SpecLoop == LoopInit /\ [][LoopNext]_vars

\* run_the_loop with frames that each issue finitely many calls (lfuel counts
\* the calls left to the transaction) and then report Return, and with no Err:
\* the loop takes its next iteration as long as it has not returned.
MaxCalls == 3
FairStartFrames == {0, 2}
FairInit ==
    /\ LoopInit
    /\ Len(call_stack) \in FairStartFrames
    /\ lfuel = MaxCalls

FrameReturns(result) ==
    /\ ReturnAction(result, FALSE, 0)
    /\ UNCHANGED lfuel

FairNext ==
    \/ \E kind \in FrameKinds : LoopEnter(kind)
    \/ \E kind \in FrameKinds, fails \in BOOLEAN : LoopCall(kind, fails, 0)
    \/ \E result \in {"Return", "Revert", "OutOfGas"} : FrameReturns(result)

SpecLoopFair == FairInit /\ [][FairNext]_vars /\ WF_vars(FairNext)

\* An instruction of the executing frame ran; SPEC is the hardfork of the
\* transaction.
SPEC == tx_env.cfg.spec_id
Instruction(op, r, host_ok, call_cost, mem_cost) ==
    /\ interpreter.instruction_result = "Continue"
    /\ interpreter' = r
    /\ instr' = [op |-> op, pre |-> interpreter,
                 host_ok |-> host_ok, call_cost |-> call_cost, mem_cost |-> mem_cost]
    /\ UNCHANGED <<parents, ifuel, jvars, gvars, svars, lvars, evars, pvars, hvars>>

Jump == Instruction("jump", jump(interpreter), TRUE, 0, 0)
Jumpi == Instruction("jumpi", jumpi(interpreter), TRUE, 0, 0)
Create(IS_CREATE2, mem_cost) ==
    Instruction(IF IS_CREATE2 THEN "create2" ELSE "create",
                create(IS_CREATE2, SPEC, interpreter, mem_cost), TRUE, 0, mem_cost)
Call(host_ok, call_cost, mem_cost) ==
    Instruction("call", call(SPEC, interpreter, host_ok, call_cost, mem_cost),
                host_ok, call_cost, mem_cost)
CallCode(host_ok, call_cost, mem_cost) ==
    Instruction("call_code", call_code(SPEC, interpreter, host_ok, call_cost, mem_cost),
                host_ok, call_cost, mem_cost)
DelegateCall(host_ok, call_cost, mem_cost) ==
    Instruction("delegate_call",
                delegate_call(SPEC, interpreter, host_ok, call_cost, mem_cost),
                host_ok, call_cost, mem_cost)
StaticCall(host_ok, call_cost, mem_cost) ==
    Instruction("static_call", static_call(SPEC, interpreter, host_ok, call_cost, mem_cost),
                host_ok, call_cost, mem_cost)

\* The code every contract of these behaviours runs: four bytes, the third a
\* JUMPDEST.
CodeJumpMap == <<FALSE, FALSE, TRUE, FALSE>>

\* The frame machine builds the child frame of a suspended call or create: its
\* interpreter takes the gas limit and, for a call, the static flag of the inputs.
child_interpreter(action) ==
    IF action.tag = "Call"
    THEN InterpreterNew([address |-> action.inputs.context.address,
                         caller |-> action.inputs.context.caller,
                         value |-> action.inputs.context.apparent_value,
                         jump_map |-> CodeJumpMap],
                        action.inputs.gas_limit, action.inputs.is_static)
    ELSE InterpreterNew([address |-> 6, caller |-> action.inputs.caller,
                         value |-> action.inputs.value, jump_map |-> CodeJumpMap],
                        action.inputs.gas_limit, FALSE)

EnterChild ==
    /\ ifuel > 0
    /\ interpreter.instruction_result = "CallOrCreate"
    /\ interpreter.next_action.tag \in {"Call", "Create"}
    /\ parents' = Append(parents, interpreter)
    /\ interpreter' = child_interpreter(interpreter.next_action)
    /\ instr' = [op |-> "enter", pre |-> interpreter,
                 host_ok |-> TRUE, call_cost |-> 0, mem_cost |-> 0]
    /\ ifuel' = ifuel - 1
    /\ UNCHANGED <<jvars, gvars, svars, lvars, evars, pvars, hvars>>

\* The child frame pushes the arguments of its next call or create.
PushArgs(words) ==
    /\ interpreter.instruction_result = "Continue"
    /\ interpreter.stack = << >>
    /\ parents # << >>
    /\ interpreter' = push_words(interpreter, words)
    /\ instr' = [op |-> "push", pre |-> interpreter,
                 host_ok |-> TRUE, call_cost |-> 0, mem_cost |-> 0]
    /\ UNCHANGED <<parents, ifuel, jvars, gvars, svars, lvars, evars, pvars, hvars>>

\* The words under an instruction, the first popped last in the tuple.
\* jump / jumpi: value, dest.
JumpDests == {0, 1, 2, 3, 4, HugeWord}
JumpValues == {0, 1, HugeWord}
JumpStacks == {<<value, dest>> : value \in JumpValues, dest \in JumpDests}
\* call and the like: out_len, out_offset, in_len, in_offset, value, to, local_gas_limit.
CallStacks ==
    {<<0, 0, 0, 0, value, 4, local_gas_limit>> :
        value \in {0, 1}, local_gas_limit \in {0, 100, HugeWord}}
\* create / create2: salt, len, code_offset, value.
CreateStacks ==
    {<<0, len, 0, value>> : len \in {0, 32, MAX_INITCODE_SIZE + 1, HugeWord}, value \in {0, 1}}
ShortStacks == {<< >>, <<1>>, <<0, 1>>}
\* Gas left when the instruction starts.
InterpGas == {9, CREATE, CREATE + 63, CREATE + 64, 40000}
InterpSpecIds == {FRONTIER, TANGERINE, BYZANTIUM, CANCUN}
MemCosts == {0, 3}
CallCosts == {100, 2600}

\* A frame about to execute one instruction.
InterpStart(stacks, gases, specs) ==
    /\ JIdle
    /\ StackIdle
    /\ LoopIdle
    /\ EvmIdle
    /\ PureIdle
    /\ tx_env \in {[cfg |-> [spec_id |-> s]] : s \in specs}
    /\ tx_frame = NoFrame
    /\ tx_gas = NoGas
    /\ tx_out = NoOut
    /\ tx_pc = "idle"
    /\ \E s \in stacks, g \in gases, is_static \in BOOLEAN :
          interpreter = [InterpreterNew([address |-> 5, caller |-> 3, value |-> 0,
                                         jump_map |-> CodeJumpMap], g, is_static)
                         EXCEPT !.stack = s, !.instruction_pointer = 1]
    /\ parents = << >>
    /\ instr = NoInstr

InterpInit ==
    /\ InterpStart(JumpStacks \cup CallStacks \cup CreateStacks \cup ShortStacks,
                   InterpGas, InterpSpecIds)
    /\ ifuel = 0

InterpNext ==
    \/ Jump
    \/ Jumpi
    \/ \E IS_CREATE2 \in BOOLEAN, mem_cost \in MemCosts : Create(IS_CREATE2, mem_cost)
    \/ \E host_ok \in BOOLEAN, call_cost \in CallCosts, mem_cost \in MemCosts :
          Call(host_ok, call_cost, mem_cost)
    \/ \E host_ok \in BOOLEAN, call_cost \in CallCosts, mem_cost \in MemCosts :
          CallCode(host_ok, call_cost, mem_cost)
    \/ \E host_ok \in BOOLEAN, call_cost \in CallCosts, mem_cost \in MemCosts :
          DelegateCall(host_ok, call_cost, mem_cost)
    \/ \E host_ok \in BOOLEAN, call_cost \in CallCosts, mem_cost \in MemCosts :
          StaticCall(host_ok, call_cost, mem_cost)

SpecInterp == InterpInit /\ [][InterpNext]_vars

\* Calls below calls: every frame pushes arguments and calls or creates.
MaxCallDepth == 3
ChildStacks ==
    {<<0, 0, 0, 0, value, 4, HugeWord>> : value \in {0, 1}} \cup {<<0, 0, 0, 0>>}

CallsInit ==
    /\ InterpStart(ChildStacks, {40000}, {FRONTIER, CANCUN})
    /\ ifuel = MaxCallDepth

CallsNext ==
    \/ Create(FALSE, 0)
    \/ Call(TRUE, 100, 0)
    \/ CallCode(TRUE, 100, 0)
    \/ DelegateCall(TRUE, 100, 0)
    \/ StaticCall(TRUE, 100, 0)
    \/ EnterChild
    \/ \E words \in ChildStacks : PushArgs(words)

SpecCalls == CallsInit /\ [][CallsNext]_vars

\* One storage slot of the contract 0x04 through loads, stores, a create at
\* its address, and checkpoints.
MaxStorageOps == 5
StorageInit == JInit(MaxStorageOps)

StorageNext ==
    \/ \E a \in {4} : LoadAccount(a)
    \/ \E a \in {4}, key \in Keys : SLoad(a, key)
    \/ \E a \in {4}, key \in Keys, new \in NewValues : SStore(a, key, new)
    \/ \E a \in {4} : CreateAccount(a)
    \/ Checkpoint
    \/ CheckpointCommit
    \/ CheckpointRevert

SpecStorage == StorageInit /\ [][StorageNext]_vars

\* Account loads of the addresses around the precompile range, with checkpoints.
MaxAccountOps == 4
\* An address with a non-zero byte among its first eighteen and 1 in its last two.
HighAddress == 65536 + 1
\* 0, the first and the last precompile, the address after them, and HighAddress.
AccountAddrs == {0, 1, NumOfPrecompiles, NumOfPrecompiles + 1, HighAddress}
AccountsInit == JInit(MaxAccountOps)

AccountsNext ==
    \/ \E a \in AccountAddrs : LoadAccount(a)
    \/ \E a \in AccountAddrs : LoadCode(a)
    \/ \E a \in AccountAddrs : Touch(a)
    \/ Checkpoint
    \/ CheckpointCommit
    \/ CheckpointRevert

SpecAccounts == AccountsInit /\ [][AccountsNext]_vars

\* Selfdestructs of the contract 0x04 and the account 0x05 towards themselves,
\* each other and the empty 0x03, with checkpoints.
MaxDestroyOps == 5
DestroyInit == JInit(MaxDestroyOps)

DestroyNext ==
    \/ \E a \in Addr : LoadAccount(a)
    \/ \E a \in {4, 5}, target \in Addr : SelfDestruct(a, target)
    \/ Checkpoint
    \/ CheckpointCommit
    \/ CheckpointRevert

SpecDestroy == DestroyInit /\ [][DestroyNext]_vars

\* Transfers between every two of the accounts, an account to itself
\* included, with loads and checkpoints.
MaxTransferOps == 4
TransferInit == JInit(MaxTransferOps)

TransferNext ==
    \/ \E a \in Addr : LoadAccount(a)
    \/ \E from \in Addr, to \in Addr, balance \in Amounts : Transfer(from, to, balance)
    \/ Checkpoint
    \/ CheckpointCommit
    \/ CheckpointRevert

SpecTransfer == TransferInit /\ [][TransferNext]_vars

\* ------------------------------------------------------------ Evm

\* Number of frame executions whose outcome the behaviour fixes beforehand.
MaxScript == 2

\* Results: Ok, or Err with the kind of EVMError.
EvmOk == "Ok"
ErrTransaction == "Err(Transaction)"
ErrDatabase == "Err(Database)"

\* validation.rs: validate_initial_tx_gas; gas::validate_initial_tx_gas has
\* computed env.initial_gas_spend.
validate_initial_tx_gas(env) ==
    IF env.initial_gas_spend > env.tx.gas_limit THEN ErrTransaction ELSE EvmOk

\* validation.rs: validate_tx_against_state on (state, journal): the caller is
\* loaded (the database may fail) and checked against the transaction.
validate_tx_against_state(st, jl, env, db_fails, caller_valid) ==
    IF db_fails THEN [st |-> st, jl |-> jl, res |-> ErrDatabase]
    ELSE LET l == load_account(st, jl, env.tx.caller)
         IN [st |-> l.st, jl |-> l.jl,
             res |-> IF caller_valid THEN EvmOk ELSE ErrTransaction]

\* The entry points of Evm, after a step: where each goes next.  A failed
\* validation goes to clear (map_err(|e| { self.clear(); e })?), the inner
\* transaction ends in post_execution().end and clear whatever it returned.
control_return_on_invalid_gas(entry, pc, ok) ==
    IF ~ok THEN IF pc = "inner" THEN "end"
                ELSE IF pc = "initial_tx_gas" /\ entry = "transact_preverified" THEN "returned"
                ELSE "clear"
    ELSE IF pc = "env" THEN "initial_tx_gas"
    ELSE IF pc = "initial_tx_gas"
    THEN IF entry = "transact_preverified" THEN "inner" ELSE "tx_against_state"
    ELSE IF pc = "tx_against_state"
    THEN IF entry = "preverify_transaction" THEN "clear" ELSE "inner"
    ELSE IF pc = "inner" THEN "end"
    ELSE IF pc = "end" THEN "clear"
    ELSE IF pc = "clear" THEN IF entry = "transact_commit" THEN "commit" ELSE "returned"
    ELSE "returned"
control(entry, pc, ok) ==
    IF ~ok THEN IF pc = "inner" THEN "end" ELSE "clear"
    ELSE IF pc = "env" THEN "initial_tx_gas"
    ELSE IF pc = "initial_tx_gas"
    THEN IF entry = "transact_preverified" THEN "inner" ELSE "tx_against_state"
    ELSE IF pc = "tx_against_state"
    THEN IF entry = "preverify_transaction" THEN "clear" ELSE "inner"
    ELSE IF pc = "inner" THEN "end"
    ELSE IF pc = "end" THEN "clear"
    ELSE IF pc = "clear" THEN IF entry = "transact_commit" THEN "commit" ELSE "returned"
    ELSE "returned"

\* transact_commit: `self.transact()?` then db.commit(state).
transact_commit_always(result) == TRUE
transact_commit(result) == result = EvmOk

\* run_the_loop: take_error().map_err(EVMError::Database)? leaves the loop
\* when the context holds an error.
take_error_ignored(error) == FALSE
take_error(error) == error # "None"

\* JournaledState::clear: the journaled state as JournaledState::new left it.
journaled_state_clear ==
    [state |-> << >>, logs |-> << >>, journal |-> << << >> >>, depth |-> 0]

\* post_execution.rs: clear on (context error, journaled state): "clears
\* error and journal state".
clear(error) == [error |-> "None", journaled_state |-> journaled_state_clear]

\* What the k-th execute_frame of the transaction does; past the end of the
\* script the frame stops.
ScriptStep(action, result, journals, db_error) ==
    [action |-> action, result |-> result, journals |-> journals, db_error |-> db_error]
execute_frame(script, k) ==
    IF k <= Len(script) THEN script[k] ELSE ScriptStep("Return", "Stop", FALSE, FALSE)

\* preverify_transaction_inner: validation().env
ValidateEnv ==
    /\ evm.pc = "env"
    /\ evm' = [evm EXCEPT !.pc = control(evm.entry, "env", evm.env_valid),
                          !.output = IF evm.env_valid THEN @ ELSE ErrTransaction]
    /\ UNCHANGED <<jvars, gvars, svars, lvars, ivars, pvars, hvars>>

\* validation().initial_tx_gas
ValidateInitialTxGas ==
    /\ evm.pc = "initial_tx_gas"
    /\ LET r == validate_initial_tx_gas(tx_env)
       IN evm' = [evm EXCEPT !.pc = control(evm.entry, "initial_tx_gas", r = EvmOk),
                             !.output = IF r = EvmOk THEN @ ELSE r]
    /\ UNCHANGED <<jvars, gvars, svars, lvars, ivars, pvars, hvars>>

\* validation().tx_against_state; preverify_transaction returns its Ok(()).
ValidateTxAgainstState ==
    /\ evm.pc = "tx_against_state"
    /\ LET r == validate_tx_against_state(state, journal, tx_env, evm.db_fails,
                                          evm.caller_valid)
       IN /\ state' = r.st
          /\ journal' = r.jl
          /\ evm' = [evm EXCEPT
                       !.pc = control(evm.entry, "tx_against_state", r.res = EvmOk),
                       !.output = IF r.res = EvmOk
                                  THEN IF evm.entry = "preverify_transaction" THEN EvmOk ELSE @
                                  ELSE r.res]
    /\ UNCHANGED <<logs, depth, is_before_spurious_dragon, panicked, checkpoints, fuel, lastOp>>
    /\ UNCHANGED <<gvars, svars, lvars, ivars, pvars, hvars>>

\* transact_preverified_inner up to deduct_caller: load_accounts and
\* load_precompiles, which load no account before Prague.
LoadAccounts ==
    /\ evm.pc = "inner"
    /\ tx_pc = "idle"
    /\ tx_pc' = "deduct_caller"
    /\ UNCHANGED <<jvars, tx_env, tx_frame, tx_gas, tx_out, svars, lvars, ivars, evars, pvars, hvars>>

\* exec.call / exec.create for the transaction: the first frame, or a result.
FirstFrame ==
    /\ evm.pc = "inner"
    /\ tx_pc = "execute"
    /\ loop_pc = "idle"
    /\ LET m == make_frame(tx_env.tx.transact_to, depth, logs, journal, evm.first_fails)
       IN /\ depth' = m.depth
          /\ journal' = m.journal
          /\ IF m.out.tag = "Frame"
             THEN LET r == enter_loop(m.out.frame)
                  IN /\ call_stack' = r.call_stack
                     /\ shared_memory' = r.shared_memory
                     /\ loop_pc' = "running"
                     /\ UNCHANGED <<tx_frame, tx_pc>>
             ELSE /\ loop_pc' = "returned"
                  /\ tx_frame' = [result |-> m.out.result.result,
                                  gas |-> GasNew(tx_env.tx.gas_limit - tx_env.initial_gas_spend)]
                  /\ tx_pc' = "handle_call_return"
                  /\ UNCHANGED <<call_stack, shared_memory>>
    /\ UNCHANGED <<state, logs, is_before_spurious_dragon, panicked, checkpoints, fuel, lastOp>>
    /\ UNCHANGED <<tx_env, tx_gas, tx_out, loop_step, lfuel, svars, ivars, evars, pvars, hvars>>

\* run_the_loop: handler.execute_frame.  The frame runs up to its next action;
\* it may have touched the contract 0x04, and a database access of its may
\* have failed, which the context records.
ExecuteFrame ==
    /\ loop_pc = "running"
    /\ evm.pc = "inner"
    /\ LET step == execute_frame(evm.script, evm.executed + 1)
           l == load_account(state, journal, 4)
           t == touch(l.st, l.jl, 4)
       IN /\ IF step.journals
             THEN state' = t.st /\ journal' = t.jl
             ELSE UNCHANGED <<state, journal>>
          /\ evm' = [evm EXCEPT !.executed = @ + 1,
                                !.next_action = step,
                                !.error = IF step.db_error THEN "Database" ELSE @]
    /\ loop_pc' = "take_error"
    /\ UNCHANGED <<logs, depth, is_before_spurious_dragon, panicked, checkpoints, fuel, lastOp>>
    /\ UNCHANGED <<call_stack, shared_memory, loop_step, lfuel, gvars, svars, ivars, pvars, hvars>>

\* run_the_loop: the error check after execute_frame.
TakeError ==
    /\ loop_pc = "take_error"
    /\ IF take_error(evm.error)
       THEN /\ loop_pc' = "error"
            /\ tx_pc' = "error"
            /\ evm' = [evm EXCEPT !.error = "None", !.output = ErrDatabase,
                                  !.pc = control(evm.entry, "inner", FALSE)]
       ELSE /\ loop_pc' = "action"
            /\ UNCHANGED <<tx_pc, evm>>
    /\ UNCHANGED <<jvars, tx_env, tx_frame, tx_gas, tx_out, svars, ivars, pvars, hvars>>
    /\ UNCHANGED <<call_stack, shared_memory, loop_step, lfuel>>

\* run_the_loop: the frame's action is processed and its result handled; the
\* result of the first frame ends the loop.
ProcessAction ==
    /\ loop_pc = "action"
    /\ LET step == evm.next_action
           m == make_frame(step.action, depth, logs, journal, step.result # "Stop")
           p == pop_frame(call_stack, shared_memory)
           f == frame_return(p.returned_frame, step.result, depth, journal)
           r == IF step.action = "Return"
                THEN handle_result(p.call_stack, p.shared_memory,
                                   FrameOrResult_Result(f.result))
                ELSE handle_result(call_stack, shared_memory, m.out)
       IN /\ depth' = IF step.action = "Return" THEN f.depth ELSE m.depth
          /\ journal' = IF step.action = "Return" THEN f.journal ELSE m.journal
          /\ call_stack' = r.call_stack
          /\ shared_memory' = r.shared_memory
          /\ loop_pc' = r.pc
          /\ IF r.pc = "returned"
             THEN /\ tx_frame' = [result |-> step.result,
                                  gas |-> GasNew(tx_env.tx.gas_limit - tx_env.initial_gas_spend)]
                  /\ tx_pc' = "handle_call_return"
             ELSE UNCHANGED <<tx_frame, tx_pc>>
    /\ evm' = [evm EXCEPT !.next_action = "None"]
    /\ UNCHANGED <<state, logs, is_before_spurious_dragon, panicked, checkpoints, fuel, lastOp>>
    /\ UNCHANGED <<tx_env, tx_gas, tx_out, loop_step, lfuel, svars, ivars, pvars, hvars>>

\* transact / transact_preverified: post_execution().end, which hands the
\* output on.
End ==
    /\ evm.pc \in {"inner", "end"}
    /\ tx_pc \in {"done", "error"}
    /\ evm' = [evm EXCEPT !.pc = control(evm.entry, "end", TRUE),
                          !.output = IF tx_pc = "done" THEN EvmOk ELSE @]
    /\ UNCHANGED <<jvars, gvars, svars, lvars, ivars, pvars, hvars>>

\* post_execution().clear: the context error is taken and the journaled state
\* is cleared.
Clear ==
    /\ evm.pc = "clear"
    /\ LET c == clear(evm.error)
       IN /\ state' = c.journaled_state.state
          /\ logs' = c.journaled_state.logs
          /\ journal' = c.journaled_state.journal
          /\ depth' = c.journaled_state.depth
          /\ evm' = [evm EXCEPT !.pc = control(evm.entry, "clear", TRUE),
                                !.error = c.error,
                                !.cleared = @ + 1]
    /\ UNCHANGED <<is_before_spurious_dragon, panicked, checkpoints, fuel, lastOp>>
    /\ UNCHANGED <<gvars, svars, lvars, ivars, pvars, hvars>>

\* transact_commit: transact has returned.
TransactCommit ==
    /\ evm.pc = "commit"
    /\ evm' = [evm EXCEPT !.pc = control(evm.entry, "commit", TRUE),
                          !.committed = transact_commit(evm.output)]
    /\ UNCHANGED <<jvars, gvars, svars, lvars, ivars, pvars, hvars>>

\* The entry points, the transactions and the frame executions tried.
EvmEntries == {"transact", "transact_preverified", "preverify_transaction", "transact_commit"}
EvmEnvs ==
    { [cfg |-> [spec_id |-> CANCUN, is_gas_refund_disabled |-> FALSE],
       block |-> [coinbase |-> 4, basefee |-> 1],
       tx |-> [caller |-> 5, gas_limit |-> l, gas_price |-> MaxPrice, transact_to |-> "Call"],
       data_fee |-> 0,
       initial_gas_spend |-> 2] : l \in {1, MaxGasLimit} }
ScriptSteps ==
    {ScriptStep(action, result, journals, db_error) :
        action \in {"Call", "Return"}, result \in {"Stop", "Revert"},
        journals \in BOOLEAN, db_error \in BOOLEAN}
Scripts == UNION {[1 .. n -> ScriptSteps] : n \in 0 .. MaxScript}

EvmInit ==
    /\ JIdle
    /\ PureIdle
    /\ StackIdle
    /\ LoopIdle
    /\ InterpIdle
    /\ tx_env \in EvmEnvs
    /\ tx_frame = NoFrame
    /\ tx_gas = NoGas
    /\ tx_out = NoOut
    /\ tx_pc = "idle"
    /\ \E entry \in EvmEntries, env_valid \in BOOLEAN, caller_valid \in BOOLEAN,
          db_fails \in BOOLEAN, first_fails \in BOOLEAN, script \in Scripts :
          evm = [NoEvm EXCEPT !.entry = entry,
                              !.pc = IF entry = "transact_preverified"
                                     THEN "initial_tx_gas" ELSE "env",
                              !.env_valid = env_valid,
                              !.caller_valid = caller_valid,
                              !.db_fails = db_fails,
                              !.first_fails = first_fails,
                              !.script = script]

EvmNext ==
    \/ ValidateEnv
    \/ ValidateInitialTxGas
    \/ ValidateTxAgainstState
    \/ LoadAccounts
    \/ DeductCaller
    \/ FirstFrame
    \/ ExecuteFrame
    \/ TakeError
    \/ ProcessAction
    \/ HandleCallReturn
    \/ CalculateGasRefund
    \/ ReimburseCaller
    \/ RewardBeneficiary
    \/ Output
    \/ End
    \/ Clear
    \/ TransactCommit

SpecEvm == EvmInit /\ [][EvmNext]_vars

\* ------------------------------------------------------- bytecode

\* Longest raw bytecode tried.
MaxCodeLen == 3
\* mod opcode: STOP, ADD, and PUSH1 .. PUSH32 = 0x60 .. 0x7f.
opcode == [STOP |-> 0, ADD |-> 1, PUSH1 |-> 96, PUSH32 |-> 127]
\* The bytes raw bytecode is made of.
CodeBytes == {opcode.STOP, opcode.ADD, opcode.PUSH1, opcode.PUSH32}

\* Vec::resize(new_len, 0) on a buffer no longer than new_len
resize_zero(bytes, new_len) == [i \in 1 .. new_len |-> IF i <= Len(bytes) THEN bytes[i] ELSE 0]

\* Bytecode::new: one STOP byte, Analysed with len 0 and a jump map of one bit.
Bytecode_new ==
    [bytecode |-> <<0>>, state |-> [tag |-> "Analysed", len |-> 0, jump_map |-> <<0>>]]

\* Bytecode::new_raw
new_raw(bytes) == [bytecode |-> bytes, state |-> [tag |-> "Raw"]]

\* Bytecode::to_checked
to_checked_pad_32(bc) ==
    IF bc.state.tag = "Raw"
    THEN LET len == Len(bc.bytecode)
         IN [bytecode |-> resize_zero(bc.bytecode, len + 32),
             state |-> [tag |-> "Checked", len |-> len]]
    ELSE bc
to_checked(bc) ==
    IF bc.state.tag = "Raw"
    THEN LET len == Len(bc.bytecode)
         IN [bytecode |-> resize_zero(bc.bytecode, len + 33),
             state |-> [tag |-> "Checked", len |-> len]]
    ELSE bc

\* instructions/stack.rs: push::<N>, on the buffer and the instruction pointer
\* (an offset into the buffer, at the first immediate byte):
\* slice::from_raw_parts(ip, N) and ip.add(N).  A read past the buffer is
\* undefined behaviour: in_bounds is FALSE and the bytes past the end are any.
instruction_push(N, bytes, ip) ==
    [in_bounds |-> ip + N <= Len(bytes),
     slice |-> [i \in 1 .. N |-> IF ip + i <= Len(bytes) THEN bytes[ip + i] ELSE 0],
     ip |-> ip + N]

\* The interpreter's step: the opcode at the instruction pointer is read and
\* the pointer moves past it.
step_opcode(bytes, ip) ==
    [in_bounds |-> ip + 1 <= Len(bytes),
     op |-> IF ip + 1 <= Len(bytes) THEN bytes[ip + 1] ELSE opcode.STOP,
     ip |-> ip + 1]

\* Bytecode::to_checked on the bytecode held.
ToChecked ==
    /\ bytecode.state.tag = "Raw"
    /\ fetch.at = "start"
    /\ bytecode' = to_checked(bytecode)
    /\ UNCHANGED <<fetch, arith, jvars, gvars, svars, lvars, ivars, evars, hvars>>

\* The interpreter reads the next opcode of checked or analysed bytecode.
Step ==
    /\ bytecode.state.tag # "Raw"
    /\ fetch.at = "opcode" => fetch.op \notin {opcode.STOP, opcode.PUSH1, opcode.PUSH32}
    /\ fetch.in_bounds
    /\ LET r == step_opcode(bytecode.bytecode, fetch.ip)
       IN fetch' = [ip |-> r.ip, at |-> "opcode", op |-> r.op, slice |-> << >>,
                    in_bounds |-> r.in_bounds]
    /\ UNCHANGED <<bytecode, arith, jvars, gvars, svars, lvars, ivars, evars, hvars>>

\* PUSH1 / PUSH32 executes.
PushN(N) ==
    /\ fetch.at = "opcode"
    /\ fetch.op = opcode.PUSH1 + (N - 1)
    /\ fetch.in_bounds
    /\ LET r == instruction_push(N, bytecode.bytecode, fetch.ip)
       IN fetch' = [ip |-> r.ip, at |-> "pushed", op |-> fetch.op, slice |-> r.slice,
                    in_bounds |-> r.in_bounds]
    /\ UNCHANGED <<bytecode, arith, jvars, gvars, svars, lvars, ivars, evars, hvars>>

\* The bytecodes tried: Bytecode::new() and every raw bytecode up to MaxCodeLen.
RawCodes == UNION {[1 .. n -> CodeBytes] : n \in 0 .. MaxCodeLen}
BytecodeInit ==
    /\ JIdle
    /\ StackIdle
    /\ LoopIdle
    /\ InterpIdle
    /\ EvmIdle
    /\ tx_env = [cfg |-> [spec_id |-> CANCUN]]
    /\ tx_frame = NoFrame
    /\ tx_gas = NoGas
    /\ tx_out = NoOut
    /\ tx_pc = "idle"
    /\ bytecode \in {Bytecode_new} \cup {new_raw(bytes) : bytes \in RawCodes}
    /\ fetch = NoFetch
    /\ arith = NoArith
    /\ HandlerIdle

BytecodeNext ==
    \/ ToChecked
    \/ Step
    \/ PushN(1)
    \/ PushN(32)

SpecBytecode == BytecodeInit /\ [][BytecodeNext]_vars

\* ------------------------------------------------------ arithmetic

\* U256 of the arithmetic instructions is ArithBits wide, usize UsizeBits wide
\* (narrower than the word, and wide enough to hold the word's bit count).
ArithBits == 6
UsizeBits == 4
BITS == ArithBits
Pow2(n) == 2 ^ n
Words == 0 .. Pow2(BITS) - 1
U256_MAX == Pow2(BITS) - 1

\* as_usize_saturated!
as_usize_saturated(v) == IF v < Pow2(UsizeBits) THEN v ELSE Pow2(UsizeBits) - 1

\* U256 << usize and U256 >> usize: every bit is shifted out from BITS on.
wrapping_shl(v, rhs) == IF rhs >= BITS THEN 0 ELSE (v * Pow2(rhs)) % Pow2(BITS)
wrapping_shr(v, rhs) == IF rhs >= BITS THEN 0 ELSE v \div Pow2(rhs)

\* i256.rs: MIN_NEGATIVE_VALUE, the word with the top bit only
MIN_NEGATIVE_VALUE == Pow2(BITS - 1)

\* i256.rs: i256_sign
i256_sign(val) ==
    IF val >= Pow2(BITS - 1) THEN "Minus" ELSE IF val # 0 THEN "Plus" ELSE "Zero"

\* i256.rs: two_compl (wrapping_neg)
two_compl(op) == (Pow2(BITS) - op) % Pow2(BITS)

\* i256.rs: i256_sign_compl: the sign, and the value made positive
i256_sign_compl(val) ==
    LET sign == i256_sign(val)
    IN [sign |-> sign, val |-> IF sign = "Minus" THEN two_compl(val) ELSE val]

\* i256.rs: u256_remove_sign
u256_remove_sign(val) == val % Pow2(BITS - 1)

\* bitwise.rs: shl, the value left on the stack for (op1, op2)
shl_shift_modulo(op1, op2) == wrapping_shl(op2, as_usize_saturated(op1) % BITS)
shl(op1, op2) == wrapping_shl(op2, as_usize_saturated(op1))

\* bitwise.rs: shr
shr(op1, op2) == wrapping_shr(op2, as_usize_saturated(op1))

\* bitwise.rs: sar
sar(op1, op2) ==
    LET sc == i256_sign_compl(op2)
        value_sign == sc.sign
    IN IF value_sign = "Zero" \/ op1 >= BITS - 1
       THEN IF value_sign = "Minus" THEN U256_MAX ELSE 0
       ELSE LET shift == op1
            IN IF value_sign = "Minus"
               THEN two_compl((wrapping_shr((sc.val - 1) % Pow2(BITS), shift) + 1) % Pow2(BITS))
               ELSE wrapping_shr(sc.val, shift)

\* i256.rs: i256_div
i256_div_unchecked(first, second) ==
    LET s == i256_sign_compl(second)
        f == i256_sign_compl(first)
    IN IF s.sign = "Zero" THEN 0
       ELSE LET d == u256_remove_sign(f.val \div s.val)
            IN IF \/ f.sign = "Minus" /\ s.sign # "Minus"
                  \/ s.sign = "Minus" /\ f.sign # "Minus"
               THEN two_compl(d)
               ELSE d
i256_div(first, second) ==
    LET s == i256_sign_compl(second)
        f == i256_sign_compl(first)
    IN IF s.sign = "Zero" THEN 0
       ELSE IF f.val = MIN_NEGATIVE_VALUE /\ s.val = 1 THEN two_compl(MIN_NEGATIVE_VALUE)
       ELSE LET d == u256_remove_sign(f.val \div s.val)
            IN IF \/ f.sign = "Minus" /\ s.sign # "Minus"
                  \/ s.sign = "Minus" /\ f.sign # "Minus"
               THEN two_compl(d)
               ELSE d

\* i256.rs: i256_mod
i256_mod_sign_of_second(first, second) ==
    LET f == i256_sign_compl(first)
        s == i256_sign_compl(second)
    IN IF f.sign = "Zero" THEN 0
       ELSE IF s.sign = "Zero" THEN 0
       ELSE LET r == u256_remove_sign(f.val % s.val)
            IN IF s.sign = "Minus" THEN two_compl(r) ELSE r
i256_mod(first, second) ==
    LET f == i256_sign_compl(first)
        s == i256_sign_compl(second)
    IN IF f.sign = "Zero" THEN 0
       ELSE IF s.sign = "Zero" THEN 0
       ELSE LET r == u256_remove_sign(f.val % s.val)
            IN IF f.sign = "Minus" THEN two_compl(r) ELSE r

\* arithmetic.rs: smod, the value left on the stack for (op1, op2)
smod(op1, op2) == IF op2 # 0 THEN i256_mod(op1, op2) ELSE op2

\* An instruction pops op1, takes op2 at the top and leaves its result there.
Arith(op, res) ==
    /\ arith.op = "None"
    /\ arith' = [arith EXCEPT !.op = op, !.res = res]
    /\ UNCHANGED <<bytecode, fetch, jvars, gvars, svars, lvars, ivars, evars, hvars>>

Shl == Arith("shl", shl(arith.a, arith.b))
Shr == Arith("shr", shr(arith.a, arith.b))
Sar == Arith("sar", sar(arith.a, arith.b))
SDiv == Arith("sdiv", i256_div(arith.a, arith.b))
I256Mod == Arith("i256_mod", i256_mod(arith.a, arith.b))
SMod == Arith("smod", smod(arith.a, arith.b))

\* Every pair of words as the operands.
ArithInit ==
    /\ JIdle
    /\ StackIdle
    /\ LoopIdle
    /\ InterpIdle
    /\ EvmIdle
    /\ tx_env = [cfg |-> [spec_id |-> CANCUN]]
    /\ tx_frame = NoFrame
    /\ tx_gas = NoGas
    /\ tx_out = NoOut
    /\ tx_pc = "idle"
    /\ bytecode = [bytecode |-> << >>, state |-> [tag |-> "Raw"]]
    /\ fetch = NoFetch
    /\ \E op1 \in Words, op2 \in Words : arith = [NoArith EXCEPT !.a = op1, !.b = op2]
    /\ HandlerIdle

ArithNext ==
    \/ Shl
    \/ Shr
    \/ Sar
    \/ SDiv
    \/ I256Mod
    \/ SMod

SpecArith == ArithInit /\ [][ArithNext]_vars

\* --------------------------------------------------------- handler

\* Register operations in one behaviour.
MaxRegisterOps == 4
\* The handles of a Handler that registers set here.
Handles == {"validation", "output"}
\* The registers tried: one replaces output, one replaces validation, one wraps
\* the output handle it finds.
Registers == {"set_output", "set_validation", "wrap_output"}

\* Handler::mainnet_with_spec: no register, every handle the mainnet one,
\* instantiated for the spec.
mainnet_with_spec(spec_id) ==
    [spec_id |-> spec_id, instantiated |-> spec_id, registers |-> << >>,
     handles |-> [slot \in Handles |-> <<"mainnet">>]]

\* A register called on the handler: what it does to the handles.
register_call(h, register) ==
    IF register = "set_output" THEN [h EXCEPT !.handles["output"] = <<"set_output">>]
    ELSE IF register = "set_validation"
    THEN [h EXCEPT !.handles["validation"] = <<"set_validation">>]
    ELSE [h EXCEPT !.handles["output"] = Append(@, "wrap_output")]

\* EvmHandler::append_handler_register (and _plain, _box) on the handler and
\* the record of register calls.
append_handler_register(h, calls, register) ==
    [handler |-> [register_call(h, register) EXCEPT !.registers = Append(@, register)],
     calls |-> Append(calls, register)]

\* for register in registers { handler.append_handler_register(register) }
RECURSIVE append_each(_, _, _)
append_each(h, calls, registers) ==
    IF registers = << >> THEN [handler |-> h, calls |-> calls]
    ELSE LET r == append_handler_register(h, calls, Head(registers))
         IN append_each(r.handler, r.calls, Tail(registers))

\* EvmHandler::pop_handle_register
pop_handle_register_no_rebuild(h, calls) ==
    IF h.registers = << >> THEN [handler |-> h, calls |-> calls, out |-> "None"]
    ELSE [handler |-> [h EXCEPT !.registers = SubSeq(@, 1, Len(@) - 1)],
          calls |-> calls, out |-> h.registers[Len(h.registers)]]
pop_handle_register(h, calls) ==
    IF h.registers = << >> THEN [handler |-> h, calls |-> calls, out |-> "None"]
    ELSE LET out == h.registers[Len(h.registers)]
             registers == SubSeq(h.registers, 1, Len(h.registers) - 1)
             base_handler == mainnet_with_spec(h.spec_id)
             r == append_each(base_handler, calls, registers)
         IN [handler |-> r.handler, calls |-> r.calls, out |-> out]

\* EvmHandler::modify_spec_id
modify_spec_id(h, calls, spec_id) ==
    IF h.spec_id = spec_id THEN [handler |-> h, calls |-> calls]
    ELSE LET r == append_each(mainnet_with_spec(spec_id), calls, h.registers)
         IN [handler |-> [r.handler EXCEPT !.spec_id = spec_id], calls |-> r.calls]

\* A register operation took place.
Registered(r, op, out, appended) ==
    /\ registered.fuel > 0
    /\ handler' = r.handler
    /\ registered' = [calls |-> r.calls, appended |-> appended, op |-> op, out |-> out,
                      pre |-> handler, pre_calls |-> registered.calls,
                      fuel |-> registered.fuel - 1]
    /\ UNCHANGED <<jvars, gvars, svars, lvars, ivars, evars, pvars>>

AppendHandlerRegister(register) ==
    Registered(append_handler_register(handler, registered.calls, register), "append",
               "None", Append(registered.appended, register))

PopHandleRegister ==
    LET r == pop_handle_register(handler, registered.calls)
    IN Registered(r, "pop", r.out,
                  SubSeq(registered.appended, 1, Len(registered.appended) - 1))

ModifySpecId(spec_id) ==
    Registered(modify_spec_id(handler, registered.calls, spec_id), "modify_spec_id",
               "None", registered.appended)

\* A mainnet handler of some spec, before any register.
HandlerInit ==
    /\ JIdle
    /\ GasIdle
    /\ StackIdle
    /\ LoopIdle
    /\ InterpIdle
    /\ EvmIdle
    /\ bytecode = [bytecode |-> << >>, state |-> [tag |-> "Raw"]]
    /\ fetch = NoFetch
    /\ arith = NoArith
    /\ \E spec_id \in {LONDON, CANCUN} : handler = mainnet_with_spec(spec_id)
    /\ registered = [NoRegistered EXCEPT !.fuel = MaxRegisterOps]

HandlerNext ==
    \/ \E register \in Registers : AppendHandlerRegister(register)
    \/ PopHandleRegister
    \/ \E spec_id \in {LONDON, CANCUN} : ModifySpecId(spec_id)

SpecHandler == HandlerInit /\ [][HandlerNext]_vars

\* --------------------------------------------------------- optimism

\* OptimismSpecId: the hardforks tried.
OptimismSpecId == [BERLIN |-> 11, LONDON |-> 12, BEDROCK |-> 16, REGOLITH |-> 17, CANCUN |-> 20]
OptimismSpecIds == {OptimismSpecId.BERLIN, OptimismSpecId.LONDON, OptimismSpecId.BEDROCK,
                    OptimismSpecId.REGOLITH, OptimismSpecId.CANCUN}
\* OptimismSpecId::enabled
optimism_enabled(our, other) == our >= other

\* Gas::new_spent
new_spent(limit) == [limit |-> limit, remaining |-> 0, refunded |-> 0]
\* Gas::set_final_refund
set_final_refund(gas, is_london) ==
    LET max_refund_quotient == IF is_london THEN 5 ELSE 2
    IN [gas EXCEPT !.refunded = Min(@, spent(gas) \div max_refund_quotient)]

\* optimism/handler_register.rs: last_frame_return, the Gas it leaves in the
\* frame result
last_frame_return(SPEC_ID, env, instruction_result, returned_gas) ==
    LET is_deposit == env.tx.source_hash # "None"
        tx_system == env.tx.is_system_transaction
        tx_gas_limit == env.tx.gas_limit
        is_regolith == optimism_enabled(SPEC_ID, OptimismSpecId.REGOLITH)
        remaining == returned_gas.remaining
        refunded == returned_gas.refunded
        gas0 == new_spent(tx_gas_limit)
        gas1 == IF instruction_result \in return_ok
                THEN IF ~is_deposit \/ is_regolith
                     THEN record_refund(erase_cost(gas0, remaining), refunded)
                     ELSE IF is_deposit /\ tx_system = "Some(true)"
                     THEN erase_cost(gas0, tx_gas_limit)
                     ELSE gas0
                ELSE IF instruction_result \in return_revert
                THEN IF ~is_deposit \/ is_regolith
                     THEN erase_cost(gas0, remaining)
                     ELSE gas0
                ELSE gas0
        is_gas_refund_disabled == env.cfg.is_gas_refund_disabled \/ (is_deposit /\ ~is_regolith)
    IN IF ~is_gas_refund_disabled
       THEN set_final_refund(gas1, optimism_enabled(SPEC_ID, OptimismSpecId.LONDON))
       ELSE gas1

\* The handler's last_frame_return on the result of the first frame.
LastFrameReturn ==
    /\ tx_pc = "handle_call_return"
    /\ tx_gas' = last_frame_return(tx_env.cfg.optimism_spec_id, tx_env, tx_frame.result,
                                   tx_frame.gas)
    /\ tx_pc' = "done"
    /\ UNCHANGED <<jvars, tx_env, tx_frame, tx_out, not_gas>>

\* The Optimism transactions tried: hardfork, refund switch, deposit or not,
\* system transaction or not.
OptimismEnvs ==
    { [cfg |-> [spec_id |-> CANCUN, optimism_spec_id |-> s, is_gas_refund_disabled |-> d],
       block |-> [coinbase |-> 4, basefee |-> 1],
       tx |-> [caller |-> 5, gas_limit |-> MaxGasLimit, gas_price |-> MaxPrice,
               transact_to |-> "Call", source_hash |-> h, is_system_transaction |-> y],
       data_fee |-> 0,
       initial_gas_spend |-> 2] :
      s \in OptimismSpecIds, d \in BOOLEAN, h \in {"None", "Some"},
      y \in {"None", "Some(false)", "Some(true)"} }

OptimismInit ==
    /\ JIdle
    /\ StackIdle
    /\ LoopIdle
    /\ InterpIdle
    /\ EvmIdle
    /\ PureIdle
    /\ tx_env \in OptimismEnvs
    /\ tx_frame = NoFrame
    /\ tx_gas = NoGas
    /\ tx_out = NoOut
    /\ tx_pc = "execute"

OptimismNext ==
    \/ \E call_result \in InstructionResults, remaining \in 0 .. MaxGasLimit,
          refunded \in Refunds : Execute(call_result, remaining, refunded)
    \/ LastFrameReturn

SpecOptimism == OptimismInit /\ [][OptimismNext]_vars

\* ------------------------------------------------------------------ claims

\* The last operation was a checkpoint_revert that ran to its end.
Reverted == lastOp.op = "checkpoint_revert" /\ lastOp.res

\* The journal vectors the last checkpoint_revert undid, oldest first.
UndoneVectors == SubSeq(lastOp.prej, lastOp.cp.journal_i + 1, Len(lastOp.prej))

\* The number of entries of a journal (all vectors) that satisfy a test.
EntryPlaces(jl) == UNION {{<<i, j>> : j \in DOMAIN jl[i]} : i \in DOMAIN jl}
CountEntries(jl, Test(_)) == Cardinality({p \in EntryPlaces(jl) : Test(jl[p[1]][p[2]])})

IsBalanceTransfer(e) == e.kind = "BalanceTransfer"
IsStorageWrite(e) == e.kind = "StorageChange" /\ e.had_value # {}
IsCodeChange(e) == e.kind = "CodeChange"

\* What a reader of the state sees: the value held in state, or else the database's.
BalanceOf(st, a) == IF a \in DOMAIN st THEN st[a].balance
                    ELSE IF DbHas(a) THEN DbBasic(a).balance ELSE 0
NonceOf(st, a) == IF a \in DOMAIN st THEN st[a].nonce
                  ELSE IF DbHas(a) THEN DbBasic(a).nonce ELSE 0
SlotOf(st, a, k) == IF a \in DOMAIN st /\ k \in DOMAIN st[a].storage
                    THEN st[a].storage[k].present_value ELSE DbStorage(a, k)

\* C1: after checkpoint_revert(cp), state equals its value at the moment
\* checkpoint() handed out cp, whatever operations were performed in between.
C1_JournalRoundTrip == Reverted => state = lastOp.cp.snap

\* C2: when an inner checkpoint was committed inside cp and only journaled
\* mutations were made, checkpoint_revert(cp) restores the state and the logs
\* of the moment cp was taken.
C2_NestedCommitThenRevert ==
    (Reverted /\ lastOp.cp.inner /\ "OverflowPayment" \notin lastOp.cp.ops
              /\ "create_account" \notin lastOp.cp.ops)
        => (state = lastOp.cp.snap /\ logs = lastOp.cp.snaplogs)

AfterTransferLoads ==
    LET l1 == load_account(lastOp.pre, lastOp.prej, lastOp.a)
    IN load_account(l1.st, l1.jl, lastOp.b)

TransferFailed == lastOp.op = "transfer" /\ lastOp.res # "Ok"

C5_SetCodeReverted ==
    (Reverted /\ "set_code" \in lastOp.cp.ops)
        => \A a \in DOMAIN lastOp.cp.snap :
              /\ a \in DOMAIN state
              /\ state[a].code = lastOp.cp.snap[a].code
              /\ state[a].code_hash = lastOp.cp.snap[a].code_hash

\* C6: create_account returns false exactly when the account has code, a
\* non-zero nonce or a precompile address; when it returns true the account is
\* Created and touched, with empty code and no storage.
C6_CreateAccountCollision ==
    lastOp.op = "create_account" =>
        LET a == lastOp.a
            before == lastOp.pre[a]
        IN /\ lastOp.res = FALSE <=>
                  \/ before.code_hash # KECCAK_EMPTY
                  \/ before.nonce # 0
                  \/ is_precompile(a, NumOfPrecompiles)
           /\ lastOp.res = TRUE =>
                  /\ Created \in state[a].status
                  /\ is_touched(state[a])
                  /\ state[a].code_hash = KECCAK_EMPTY
                  /\ state[a].storage = << >>

\* The quotient of the refund cap: 5 from London on, 2 before.
RefundQuotient == IF tx_env.cfg.spec_id >= LONDON THEN 5 ELSE 2

\* C7 -- gas conservation: for every outcome of a transaction (success, revert,
\* halt) the gas_used of the ExecutionResult plus the gas units reimbursed to
\* the caller is tx.gas_limit, and so is the gas paid to the beneficiary plus
\* the gas reimbursed; none of the three u64 computations leaves the u64 range.
C7_GasConservation ==
    tx_pc = "done" =>
        /\ ~tx_out.overflow
        /\ tx_out.result.gas_used + tx_out.reimbursed = tx_env.tx.gas_limit
        /\ tx_out.rewarded + tx_out.reimbursed = tx_env.tx.gas_limit

\* A successful transaction was settled that had gas left and a refund applied.
C7_Witness ==
    /\ tx_pc = "done"
    /\ tx_out.result.kind = "Success"
    /\ tx_out.result.gas_refunded > 0
    /\ tx_out.reimbursed > tx_out.result.gas_refunded
    /\ tx_out.result.gas_used > 0

\* C8 -- handle_call_return yields a Gas with limit = tx.gas_limit and
\* spent + remaining = tx.gas_limit; on success remaining and refunded are those
\* of the returned gas; on revert remaining is that of the returned gas and
\* refunded is 0; on every halt remaining = 0, refunded = 0, spent = tx.gas_limit.
C8_HandleCallReturn ==
    tx_pc = "calculate_gas_refund" =>
        LET call_result == tx_frame.result
            returned_gas == tx_frame.gas
        IN /\ tx_gas.limit = tx_env.tx.gas_limit
           /\ spent(tx_gas) >= 0
           /\ spent(tx_gas) + tx_gas.remaining = tx_env.tx.gas_limit
           /\ call_result \in {"Stop", "Return", "SelfDestruct"} =>
                  /\ tx_gas.remaining = returned_gas.remaining
                  /\ tx_gas.refunded = returned_gas.refunded
           /\ call_result = "Revert" =>
                  /\ tx_gas.remaining = returned_gas.remaining
                  /\ tx_gas.refunded = 0
           /\ call_result \notin {"Stop", "Return", "SelfDestruct", "Revert"} =>
                  /\ tx_gas.remaining = 0
                  /\ tx_gas.refunded = 0
                  /\ spent(tx_gas) = tx_env.tx.gas_limit

\* handle_call_return has settled a frame that halted with gas left and a
\* refund counter that is not 0.
C8_Witness ==
    /\ tx_pc = "calculate_gas_refund"
    /\ tx_frame.result = "OutOfGas"
    /\ tx_frame.gas.remaining > 0
    /\ tx_frame.gas.refunded > 0
    /\ tx_gas.remaining = 0

\* C9 -- the final refund is min(refunded, spent / quotient), quotient 5 from
\* London on and 2 before, for every spent amount and every value of the signed
\* refund counter; it is 0 when gas refunds are disabled.
C9_FinalRefund ==
    tx_pc = "reimburse_caller" =>
        tx_gas.refunded =
            IF tx_env.cfg.is_gas_refund_disabled THEN 0
            ELSE Min(tx_out.call_gas.refunded, spent(tx_out.call_gas) \div RefundQuotient)

\* The items an operation needs on the stack.
StackNeeds(op, n) ==
    CASE op = "pop" -> 1
      [] op = "pop2" -> 2
      [] op = "pop3" -> 3
      [] op = "pop4" -> 4
      [] op = "dup" -> n
      [] op = "swap" -> n + 1
      [] op = "peek" -> n + 1
      [] op = "set" -> n + 1
      [] OTHER -> 0

\* The operations that add one item.
StackGrows(op) == op \in {"push", "push_h256", "push_slice", "dup"}

\* C10 -- stack discipline: after any sequence of push, push_h256, push_slice,
\* dup<N>, swap<N>, pop, pop2, pop3, pop4, peek and set the length is within
\* 0..1024; an operation that needs more items than are present returns
\* StackUnderflow, one that would make the length exceed 1024 returns
\* StackOverflow, no other operation fails, and a failed operation leaves the
\* stack as it was.
C10_StackDiscipline ==
    /\ Len(data) <= STACK_LIMIT
    /\ stackOp.op # "new" =>
        LET len == Len(stackOp.pre)
            need == StackNeeds(stackOp.op, stackOp.n)
        IN /\ (stackOp.res = "StackUnderflow") <=> (len < need)
           /\ (stackOp.res = "StackOverflow") <=>
                  (len >= need /\ StackGrows(stackOp.op) /\ len + 1 > STACK_LIMIT)
           /\ stackOp.res \in {"Ok", "StackUnderflow", "StackOverflow"}
           /\ stackOp.res # "Ok" => data = stackOp.pre
           /\ stackOp.res = "Ok" =>
                  Len(data) = len + (IF StackGrows(stackOp.op) THEN 1 ELSE 0)
                                  - (IF stackOp.op \in {"pop", "pop2", "pop3", "pop4"}
                                     THEN need ELSE 0)

\* A push on a full stack was refused and left the 1024 items in place.
C10_Witness ==
    /\ stackOp.op = "push"
    /\ stackOp.res = "StackOverflow"
    /\ Len(data) = STACK_LIMIT
    /\ data = stackOp.pre

C12_ContextPerFrame ==
    /\ loop_pc = "running" => Len(shared_memory.checkpoints) = Len(call_stack)
    /\ loop_step.action = "Enter"
          => Len(call_stack) = 1 /\ Len(shared_memory.checkpoints) = 1
    /\ (loop_step.action \in FrameKinds /\ loop_step.out = "Frame")
          => /\ Len(call_stack) = loop_step.pre_frames + 1
             /\ Len(shared_memory.checkpoints) = loop_step.pre_contexts + 1
    /\ loop_step.action = "Return"
          => /\ Len(call_stack) = loop_step.pre_frames - 1
             /\ Len(shared_memory.checkpoints) = loop_step.pre_contexts - 1
    /\ (loop_step.action \in FrameKinds /\ loop_step.out = "Result")
          => /\ Len(call_stack) = loop_step.pre_frames
             /\ Len(shared_memory.checkpoints) = loop_step.pre_contexts

\* A frame was pushed, and a later Return popped it.
C12_Witness ==
    /\ loop_pc = "running"
    /\ loop_step.action = "Return"
    /\ loop_step.pre_frames = 3
    /\ Len(call_stack) = 2
    /\ call_stack[2].outcome.result = "Revert"

\* The last instruction was one of the four calls and suspended the frame.
CallSchemes == {"call", "call_code", "delegate_call", "static_call"}
CallSuspended ==
    /\ instr.op \in CallSchemes
    /\ interpreter.instruction_result = "CallOrCreate"
    /\ interpreter.next_action.tag = "Call"

\* C13: the CallInputs of CALL, CALLCODE and DELEGATECALL carry the calling
\* frame's is_static, those of STATICCALL carry true, and every frame below a
\* static frame is static.
C13_StaticMonotone ==
    /\ CallSuspended
          => /\ instr.op \in {"call", "call_code", "delegate_call"}
                   => interpreter.next_action.inputs.is_static = instr.pre.is_static
             /\ instr.op = "static_call" => interpreter.next_action.inputs.is_static
             /\ interpreter.is_static = instr.pre.is_static
    /\ \A k \in DOMAIN parents :
          parents[k].is_static
             => /\ interpreter.is_static
                /\ \A j \in k .. Len(parents) : parents[j].is_static

\* A STATICCALL of a frame that is not static, a DELEGATECALL of its child, and
\* the grandchild calls in turn.
C13_Witness ==
    /\ Len(parents) = 2
    /\ ~parents[1].is_static
    /\ parents[1].next_action.tag = "Call"
    /\ parents[1].next_action.inputs.context.scheme = "StaticCall"
    /\ parents[2].is_static
    /\ parents[2].next_action.tag = "Call"
    /\ parents[2].next_action.inputs.context.scheme = "DelegateCall"
    /\ CallSuspended
    /\ instr.op = "call"
    /\ interpreter.next_action.inputs.is_static

\* The last instruction was a CALL in a static frame that held the three words
\* local_gas_limit, to and value.
StaticCallOp ==
    /\ instr.op = "call"
    /\ instr.pre.is_static
    /\ Len(instr.pre.stack) >= 3
CallValue == instr.pre.stack[Len(instr.pre.stack) - 2]
\* Nothing but a static frame could stop that CALL: memory and host are fine,
\* and the gas covers the costs (the forwarded part is capped from Tangerine on).
CallCanProceed ==
    /\ Len(instr.pre.stack) >= 7
    /\ instr.host_ok
    /\ instr.pre.gas.remaining >= instr.mem_cost + instr.call_cost
    /\ enabled(SPEC, TANGERINE)

\* C14: CALL with value in a static frame stops with CallNotAllowedInsideStatic,
\* sets no next_action and charges and forwards no gas; with value = 0 it
\* proceeds.
C14_CallWithValueInStatic ==
    StaticCallOp
       => /\ CallValue # 0
                => /\ interpreter.instruction_result = "CallNotAllowedInsideStatic"
                   /\ interpreter.next_action = NoAction
                   /\ interpreter.gas = instr.pre.gas
          /\ CallValue = 0
                => /\ interpreter.instruction_result # "CallNotAllowedInsideStatic"
                   /\ CallCanProceed
                         => /\ interpreter.instruction_result = "CallOrCreate"
                            /\ interpreter.next_action.tag = "Call"
                            /\ interpreter.next_action.inputs.is_static
                            /\ interpreter.next_action.inputs.transfer.value = 0
                            /\ interpreter.next_action.inputs.gas_limit
                                  + interpreter.gas.remaining
                                  = instr.pre.gas.remaining - instr.mem_cost - instr.call_cost

\* A CALL with value 1 was refused in a static frame that could have paid for it.
C14_Witness ==
    /\ StaticCallOp
    /\ CallValue # 0
    /\ CallCanProceed
    /\ interpreter.instruction_result = "CallNotAllowedInsideStatic"

\* The last instruction was a CREATE or CREATE2 that suspended the frame.
CreateSuspended ==
    /\ instr.op \in {"create", "create2"}
    /\ interpreter.instruction_result = "CallOrCreate"
    /\ interpreter.next_action.tag = "Create"
\* The length of the init code, and what the instruction charges before it
\* settles the child's gas: init code metering, memory, and the create cost.
CreateLen == instr.pre.stack[Len(instr.pre.stack) - 2]
CreateCost ==
    (IF CreateLen # 0 /\ enabled(SPEC, SHANGHAI) THEN initcode_cost(CreateLen) ELSE 0)
    + (IF CreateLen # 0 THEN instr.mem_cost ELSE 0)
    + (IF instr.op = "create2" THEN create2_cost(CreateLen) ELSE CREATE)
\* r: the gas remaining after the create cost is charged.
CreateRemaining == instr.pre.gas.remaining - CreateCost

\* C15: with r the gas remaining after the create cost, the child of CREATE and
\* CREATE2 gets r - floor(r / 64) from Tangerine on and r before, and the child's
\* gas_limit plus the parent's remaining gas is r.
C15_CreateForwardsAllButOne64th ==
    CreateSuspended
       => /\ interpreter.next_action.inputs.gas_limit
                = IF enabled(SPEC, TANGERINE)
                  THEN CreateRemaining - (CreateRemaining \div 64)
                  ELSE CreateRemaining
          /\ interpreter.next_action.inputs.gas_limit + interpreter.gas.remaining
                = CreateRemaining

\* A CREATE from Tangerine on that keeps back a 64th which is not zero.
C15_Witness ==
    /\ CreateSuspended
    /\ enabled(SPEC, TANGERINE)
    /\ CreateRemaining >= 64
    /\ interpreter.gas.remaining = CreateRemaining \div 64
    /\ interpreter.gas.remaining > 0

\* The last instruction was a JUMP, or a JUMPI, that had its gas and its words.
JumpOp ==
    /\ instr.op = "jump"
    /\ instr.pre.gas.remaining >= MID
    /\ Len(instr.pre.stack) >= 1
JumpiOp ==
    /\ instr.op = "jumpi"
    /\ instr.pre.gas.remaining >= HIGH
    /\ Len(instr.pre.stack) >= 2
JumpDest == instr.pre.stack[Len(instr.pre.stack)]
JumpiValue == instr.pre.stack[Len(instr.pre.stack) - 1]
\* dest is below the code length and bit dest of the jump map is set.
JumpDestValid ==
    /\ JumpDest < Len(instr.pre.contract.jump_map)
    /\ instr.pre.contract.jump_map[JumpDest + 1]
\* What JUMP(dest) does: relocate, or stop with InvalidJump where it stood.
JumpTaken ==
    IF JumpDestValid
    THEN /\ interpreter.instruction_pointer = JumpDest
         /\ interpreter.instruction_result = "Continue"
    ELSE /\ interpreter.instruction_result = "InvalidJump"
         /\ interpreter.instruction_pointer = instr.pre.instruction_pointer

\* C16: JUMP(dest) stops with InvalidJump unless dest is below the code length
\* and its bit in the jump map is set, and else relocates the instruction
\* pointer to dest; JUMPI(dest, cond) with cond = 0 leaves instruction pointer
\* and instruction_result as they were, and with cond # 0 does what JUMP does.
C16_JumpValidity ==
    /\ JumpOp => JumpTaken
    /\ JumpiOp
          => IF JumpiValue = 0
             THEN /\ interpreter.instruction_pointer = instr.pre.instruction_pointer
                  /\ interpreter.instruction_result = instr.pre.instruction_result
             ELSE JumpTaken

\* A JUMPI with cond # 0 went to the JUMPDEST.
C16_Witness ==
    /\ JumpiOp
    /\ JumpiValue # 0
    /\ JumpDestValid
    /\ interpreter.instruction_pointer = 2
    /\ instr.pre.instruction_pointer = 1

\* The last operation was an sstore; the slot it wrote, before and after.
StoreOp == lastOp.op = "sstore"
StoreHad == lastOp.k \in DOMAIN lastOp.pre[lastOp.a].storage
StoreSlotBefore == lastOp.pre[lastOp.a].storage[lastOp.k]
StoreSlotAfter == state[lastOp.a].storage[lastOp.k]
\* The journal and the state once the slot is loaded and before it is written.
StoreLoadedJournal ==
    IF StoreHad THEN lastOp.prej
    ELSE PushLast(lastOp.prej, StorageChange(lastOp.a, lastOp.k, {}))
StoreLoadedState ==
    IF StoreHad THEN lastOp.pre
    ELSE [lastOp.pre EXCEPT ![lastOp.a].storage =
                               MapPut(@, lastOp.k, StorageSlotNew(lastOp.res[2]))]
\* Every slot that an operation found and left in the state kept its original value.
OriginalKept ==
    lastOp.op # "new"
       => \A a \in DOMAIN state \cap DOMAIN lastOp.pre :
             \A k \in DOMAIN state[a].storage \cap DOMAIN lastOp.pre[a].storage :
                state[a].storage[k].original_value = lastOp.pre[a].storage[k].original_value

\* C17: sstore returns (original, present, new, cold); original is the value the
\* slot had when it was loaded and no sstore changes it; a StorageChange with
\* had_value Some(present) is pushed and present_value becomes new exactly when
\* new # present, and else slot and journal stay as the load left them.
C17_SStoreResult ==
    /\ OriginalKept
    /\ StoreOp
          => LET original == lastOp.res[1]
                 present == lastOp.res[2]
                 new == lastOp.res[3]
                 cold == lastOp.res[4]
             IN /\ new = lastOp.v
                /\ cold = ~StoreHad
                /\ present = IF StoreHad THEN StoreSlotBefore.present_value
                             ELSE IF Created \in lastOp.pre[lastOp.a].status THEN present
                             ELSE DbStorage(lastOp.a, lastOp.k)
                /\ original = IF StoreHad THEN StoreSlotBefore.original_value ELSE present
                /\ StoreSlotAfter.original_value = original
                /\ IF new # present
                   THEN /\ journal = PushLast(StoreLoadedJournal,
                                              StorageChange(lastOp.a, lastOp.k, {present}))
                        /\ state = [StoreLoadedState EXCEPT
                                       ![lastOp.a].storage[lastOp.k].present_value = new]
                   ELSE /\ journal = StoreLoadedJournal
                        /\ state = StoreLoadedState

\* A second sstore of a slot, with a value other than the first wrote, on a
\* slot whose original value differs from both.
C17_Witness ==
    /\ StoreOp
    /\ StoreHad
    /\ lastOp.res[1] # lastOp.res[2]
    /\ lastOp.res[2] # lastOp.res[3]
    /\ StoreSlotAfter.original_value = lastOp.res[1]
    /\ StoreSlotAfter.present_value = lastOp.res[3]

\* The slot is loaded in a state: it was accessed and is warm.
WarmIn(st, a, k) == a \in DOMAIN st /\ k \in DOMAIN st[a].storage
\* The last operation was an sload or an sstore, and the cold flag it returned.
AccessOp == lastOp.op \in {"sload", "sstore"}
AccessCold == IF lastOp.op = "sload" THEN lastOp.res[2] ELSE lastOp.res[4]
\* The entries the last operation pushed on the last journal vector.
PushedEntries ==
    SubSeq(journal[Len(journal)], Len(lastOp.prej[Len(lastOp.prej)]) + 1,
           Len(journal[Len(journal)]))

\* An access reports cold exactly when the slot is not yet loaded, journals the
\* load then, and leaves the slot loaded; a warm sload returns the present value.
AccessReportsCold ==
    AccessOp
       => /\ AccessCold = ~WarmIn(lastOp.pre, lastOp.a, lastOp.k)
          /\ AccessCold => /\ PushedEntries # << >>
                           /\ PushedEntries[1] = StorageChange(lastOp.a, lastOp.k, {})
          /\ (lastOp.op = "sload" /\ ~AccessCold)
                => /\ lastOp.res[1] = lastOp.pre[lastOp.a].storage[lastOp.k].present_value
                   /\ journal = lastOp.prej
          /\ WarmIn(state, lastOp.a, lastOp.k)
\* A slot accessed earlier stays warm through every operation but a revert and
\* the end of the transaction.
WarmStaysWarm ==
    lastOp.op \notin {"new", "checkpoint_revert", "finalize"}
       => \A a \in Addr, k \in Keys : WarmIn(lastOp.pre, a, k) => WarmIn(state, a, k)
\* A revert leaves warm the slots that were warm at the checkpoint, and no other.
RevertRestoresWarmth ==
    Reverted
       => \A a \in Addr, k \in Keys : WarmIn(state, a, k) <=> WarmIn(lastOp.cp.snap, a, k)

\* C18: the first sload or sstore of a slot in a transaction reports cold and
\* journals StorageChange with had_value None; every later sload reports warm
\* and returns the value last written; after the revert of the checkpoint of
\* the first access the slot is cold again.
C18_StorageColdWarm ==
    /\ AccessReportsCold
    /\ WarmStaysWarm
    /\ RevertRestoresWarmth

\* The account is loaded in a state.
LoadedIn(st, a) == a \in DOMAIN st
LoadOp == lastOp.op = "load_account"
\* The account the database holds for an address.
AccountOfDb(a) == IF DbHas(a) THEN AccountFromInfo(DbBasic(a)) ELSE new_not_existing
\* The first load of an address populates it from the database, journals
\* AccountLoaded, and reports cold exactly when the address is outside
\* 1..=num_of_precompiles.
FirstLoad ==
    (LoadOp /\ ~LoadedIn(lastOp.pre, lastOp.a))
       => /\ lastOp.res = (lastOp.a \notin 1..NumOfPrecompiles)
          /\ state = MapPut(lastOp.pre, lastOp.a, AccountOfDb(lastOp.a))
          /\ journal = PushLast(lastOp.prej, AccountLoaded(lastOp.a))
\* A later load reports warm and changes neither the state nor the journal.
LaterLoad ==
    (LoadOp /\ LoadedIn(lastOp.pre, lastOp.a))
       => /\ lastOp.res = FALSE
          /\ state = lastOp.pre
          /\ journal = lastOp.prej
\* A loaded account stays loaded through every operation but a revert and the
\* end of the transaction.
LoadedStaysLoaded ==
    lastOp.op \notin {"new", "checkpoint_revert", "finalize"}
       => \A a \in AccountAddrs : LoadedIn(lastOp.pre, a) => LoadedIn(state, a)
\* A revert unloads exactly the accounts loaded since the checkpoint; from
\* Spurious Dragon on PRECOMPILE3 is kept.
RevertUnloads ==
    Reverted
       => \A a \in AccountAddrs :
              LoadedIn(state, a)
                 <=> \/ LoadedIn(lastOp.cp.snap, a)
                     \/ /\ a = PRECOMPILE3
                        /\ ~is_before_spurious_dragon
                        /\ LoadedIn(lastOp.pre, a)

\* C19: load_account reports cold exactly on the first load of an address that
\* is not a precompile, populating it from the database and journaling
\* AccountLoaded; every later load reports warm and journals nothing, until a
\* revert unloads the address; the precompiles are the addresses
\* 1..=num_of_precompiles (0, N + 1 and an address with a non-zero high byte
\* are not).
C19_AccountColdWarm ==
    /\ FirstLoad
    /\ LaterLoad
    /\ LoadedStaysLoaded
    /\ RevertUnloads

\* The first load of the address after the last precompile was cold, an
\* earlier load of the last precompile was warm and is journaled.
C19_Witness ==
    /\ LoadOp
    /\ lastOp.a = NumOfPrecompiles + 1
    /\ lastOp.res = TRUE
    /\ ~LoadedIn(lastOp.pre, lastOp.a)
    /\ LoadedIn(lastOp.pre, NumOfPrecompiles)
    /\ LoadedIn(lastOp.pre, 0)
    /\ journal[1] = <<AccountLoaded(NumOfPrecompiles), AccountLoaded(0), AccountLoaded(lastOp.a)>>

\* The address was loaded before the operation that came last.
LoadedEarlier(a) == lastOp.op # "new" /\ LoadedIn(lastOp.pre, a)
\* C19 as stated: a load_account of an address that had been loaded earlier in
\* the transaction reports warm.
C19_LaterLoadsWarm ==
    [][\A a \in AccountAddrs :
          (LoadedEarlier(a) /\ LoadOp' /\ lastOp'.a = a) => lastOp'.res = FALSE]_vars

\* The operations that touch an account, and the accounts the last one touched:
\* touch a loaded address, set_code and a successful inc_nonce their account,
\* transfer `from` and, once `from` has the funds, `to`, selfdestruct a target
\* other than the destroyed account.
TouchOps == {"touch", "transfer", "inc_nonce", "set_code", "selfdestruct"}
TouchedBy ==
    IF lastOp.op = "touch" THEN {lastOp.a} \cap DOMAIN lastOp.pre
    ELSE IF lastOp.op = "set_code" THEN {lastOp.a}
    ELSE IF lastOp.op = "inc_nonce" THEN IF lastOp.res = {} THEN {} ELSE {lastOp.a}
    ELSE IF lastOp.op = "transfer"
    THEN IF lastOp.res = "OutOfFund" THEN {lastOp.a} ELSE {lastOp.a, lastOp.b}
    ELSE IF lastOp.op = "selfdestruct" THEN {lastOp.b} \ {lastOp.a}
    ELSE {}
\* The account was touched before the last operation.
WasTouched(x) == x \in DOMAIN lastOp.pre /\ is_touched(lastOp.pre[x])
\* The number of AccountTouched entries the last operation pushed for x.
TouchEntries(x) ==
    Cardinality({i \in DOMAIN PushedEntries : PushedEntries[i] = AccountTouched(x)})

\* C20: the touch of a loaded, untouched account sets Touched and pushes exactly
\* one AccountTouched entry; a further touch of it, directly or through
\* transfer, inc_nonce, set_code or selfdestruct, pushes no AccountTouched entry
\* and leaves its flags as they were (a direct one changes nothing at all);
\* touch of an address that is not loaded changes nothing.
C20_TouchIdempotent ==
    lastOp.op \in TouchOps
       => /\ \A x \in Addr :
                /\ TouchEntries(x) = IF x \in TouchedBy /\ ~WasTouched(x) THEN 1 ELSE 0
                /\ x \in TouchedBy => is_touched(state[x])
                /\ (x \in TouchedBy /\ WasTouched(x))
                       => state[x].status = lastOp.pre[x].status
          /\ lastOp.op = "touch"
                => IF lastOp.a \in DOMAIN lastOp.pre /\ ~WasTouched(lastOp.a)
                   THEN /\ state = [lastOp.pre EXCEPT ![lastOp.a].status = @ \cup {Touched}]
                        /\ journal = PushLast(lastOp.prej, AccountTouched(lastOp.a))
                   ELSE /\ state = lastOp.pre
                        /\ journal = lastOp.prej

\* A transfer from an account that an earlier touch had marked: the journal
\* holds one AccountTouched entry for it, the one of that touch.
C20_Witness ==
    /\ lastOp.op = "transfer"
    /\ lastOp.res = "Ok"
    /\ WasTouched(lastOp.a)
    /\ lastOp.prej[1] = <<AccountLoaded(lastOp.a), AccountTouched(lastOp.a)>>
    /\ TouchEntries(lastOp.a) = 0
    /\ TouchEntries(lastOp.b) = 1
    /\ state[lastOp.a].status = {Touched}

IncOp == lastOp.op = "inc_nonce"
\* The number of NonceChange entries of an address in a sequence of entries.
NonceChanges(entries, a) ==
    Cardinality({i \in DOMAIN entries : entries[i] = NonceChange(a)})
\* The entries of the journal vectors the last checkpoint_revert undid.
RECURSIVE Flatten(_)
Flatten(vectors) ==
    IF vectors = << >> THEN << >> ELSE Head(vectors) \o Flatten(Tail(vectors))
\* inc_nonce at the largest nonce returns None and changes nothing.
IncAtMax ==
    (IncOp /\ lastOp.pre[lastOp.a].nonce = MaxNonce)
       => /\ lastOp.res = {}
          /\ state = lastOp.pre
          /\ journal = lastOp.prej
\* Below it the nonce grows by one and is returned, one NonceChange entry is
\* pushed last, and nothing but the nonce and the Touched flag changes.
IncBelowMax ==
    (IncOp /\ lastOp.pre[lastOp.a].nonce # MaxNonce)
       => /\ state[lastOp.a].nonce = lastOp.pre[lastOp.a].nonce + 1
          /\ lastOp.res = {state[lastOp.a].nonce}
          /\ NonceChanges(PushedEntries, lastOp.a) = 1
          /\ PushedEntries[Len(PushedEntries)] = NonceChange(lastOp.a)
          /\ state = [lastOp.pre EXCEPT ![lastOp.a].nonce = @ + 1,
                                        ![lastOp.a].status = @ \cup {Touched}]
\* A revert lowers the nonce by one for each NonceChange entry it undoes.
RevertLowersNonce ==
    Reverted
       => \A a \in DOMAIN state :
              state[a].nonce = lastOp.pre[a].nonce - NonceChanges(Flatten(UndoneVectors), a)

\* C21: inc_nonce returns None and leaves nonce, flags and journal unchanged
\* when the nonce is u64::MAX; otherwise it adds exactly 1, returns the new
\* nonce and pushes one NonceChange entry, which checkpoint_revert undoes by
\* subtracting 1.
C21_IncNonce ==
    /\ IncAtMax
    /\ IncBelowMax
    /\ RevertLowersNonce

\* inc_nonce refused at the largest nonce, which two earlier inc_nonce reached.
C21_Witness ==
    /\ IncOp
    /\ lastOp.res = {}
    /\ state[lastOp.a].nonce = MaxNonce
    /\ NonceChanges(Flatten(journal), lastOp.a) = MaxNonce

DestroyOp == lastOp.op = "selfdestruct"
\* The balance the destroyed account had, and the target's, before the operation.
DestroyedBalance == lastOp.pre[lastOp.a].balance
TargetBalance == BalanceOf(lastOp.pre, lastOp.b)
\* The destroyed account is left without balance and flagged.
DestroyEmpties ==
    DestroyOp
       => /\ state[lastOp.a].balance = 0
          /\ SelfDestructed \in state[lastOp.a].status
          /\ lastOp.res.had_value = (DestroyedBalance # 0)
\* A target other than the destroyed account receives exactly that balance.
DestroyMoves ==
    (DestroyOp /\ lastOp.a # lastOp.b)
       => state[lastOp.b].balance = TargetBalance + DestroyedBalance
\* One AccountDestroyed entry, holding the balance, is pushed (last).
DestroyJournals ==
    DestroyOp
       => /\ Cardinality({i \in DOMAIN PushedEntries :
                             PushedEntries[i].kind = "AccountDestroyed"}) = 1
          /\ LET e == PushedEntries[Len(PushedEntries)]
             IN /\ e.kind = "AccountDestroyed"
                /\ e.address = lastOp.a
                /\ e.target = lastOp.b
                /\ e.had_balance = DestroyedBalance
\* A revert brings back the balances of the checkpoint.
RevertRestoresBalances ==
    Reverted
       => \A a \in DOMAIN state :
              a \in DOMAIN lastOp.cp.snap => state[a].balance = lastOp.cp.snap[a].balance

\* C22: selfdestruct(addr, target) leaves addr with balance 0 and the flag
\* SelfDestructed; a target other than addr gains exactly addr's previous
\* balance, with target = addr the balance is burned; had_value tells whether
\* that balance was non-zero; one AccountDestroyed entry is journaled and its
\* revert restores both balances.
C22_SelfDestruct ==
    /\ DestroyEmpties
    /\ DestroyMoves
    /\ DestroyJournals
    /\ RevertRestoresBalances

FinalizeOp == lastOp.op = "finalize"
\* The state finalize returned.
StateDiff == lastOp.res[1]
\* The account was loaded and never changed: none of its flags Touched,
\* Created, SelfDestructed is set.
Unchanged(acc) == acc.status \cap {Touched, Created, SelfDestructed} = {}

\* C23: the state finalize returns holds no account that was loaded but never
\* changed and, from Spurious Dragon on, no account that is empty and touched.
C23_FinalizeDiff ==
    FinalizeOp
       => \A a \in DOMAIN StateDiff :
              /\ ~Unchanged(StateDiff[a])
              /\ ~is_before_spurious_dragon
                    => ~(is_empty(StateDiff[a]) /\ is_touched(StateDiff[a]))

\* The account was loaded after the reverted checkpoint was taken: the revert
\* undid its AccountLoaded entry.
LoadUndone(a) == LoadedIn(lastOp.pre, a) /\ ~LoadedIn(lastOp.cp.snap, a)

\* C24: with Spurious Dragon enabled (is_before_spurious_dragon = false)
\* checkpoint_revert leaves the account 0x03 loaded since the checkpoint in
\* state; every other account loaded since the checkpoint, and 0x03 too
\* before Spurious Dragon, is removed from state.
C24_Precompile3Kept ==
    Reverted
       => \A a \in AccountAddrs :
              LoadUndone(a)
                 => (LoadedIn(state, a) <=> (a = PRECOMPILE3 /\ ~is_before_spurious_dragon))

\* C24 as stated: the account 0x03 is the one left in state, and it is left
\* there when is_before_spurious_dragon = true.
C24_Precompile3KeptBefore ==
    Reverted
       => \A a \in AccountAddrs :
              LoadUndone(a)
                 => (LoadedIn(state, a) <=> (a = PRECOMPILE3 /\ is_before_spurious_dragon))

\* A revert, with Spurious Dragon enabled, of the loads of 0x03 and 0x04:
\* 0x03 is still in state, 0x04 is not.
C24_Witness ==
    /\ Reverted
    /\ ~is_before_spurious_dragon
    /\ LoadUndone(PRECOMPILE3)
    /\ LoadUndone(PRECOMPILE3 + 1)
    /\ LoadedIn(state, PRECOMPILE3)
    /\ ~LoadedIn(state, PRECOMPILE3 + 1)


\* ---- C25
\* Validation rejects the transaction: the environment check, the initial gas
\* against the gas limit, or the check against the caller's state fails
\* (transact_preverified runs the initial gas check only).
Preverified == evm.entry = "transact_preverified"
RejectedByEnv == ~Preverified /\ ~evm.env_valid
RejectedByGas == tx_env.initial_gas_spend > tx_env.tx.gas_limit
RejectedByState == ~Preverified /\ (evm.db_fails \/ ~evm.caller_valid)
Rejected == RejectedByEnv \/ RejectedByGas \/ RejectedByState
JournaledStateCleared ==
    state = << >> /\ logs = << >> /\ journal = << << >> >> /\ depth = 0
Returned == evm.pc \in {"commit", "returned"}
\* C25: every entry point has run clear when it returns, and then the journaled
\* state is cleared; a transaction that validation rejects returns an error,
\* never starts the inner transaction or a frame, and is not committed.
C25_ClearOnEveryExit ==
    /\ evm.entry # "None" /\ Returned =>
          evm.cleared >= 1 /\ evm.error = "None" /\ JournaledStateCleared
    /\ evm.entry # "None" /\ Rejected =>
          /\ evm.executed = 0 /\ tx_pc = "idle" /\ loop_pc = "idle"
          /\ call_stack = << >>
          /\ ~evm.committed
          /\ Returned => evm.output \in {ErrTransaction, ErrDatabase}
\* A transaction whose caller fails the state check has returned: the caller
\* was loaded by the check, and clear has emptied the journaled state.
C25_Witness ==
    /\ evm.entry = "transact" /\ evm.pc = "returned"
    /\ evm.env_valid /\ ~RejectedByGas /\ ~evm.db_fails /\ ~evm.caller_valid
    /\ evm.output = ErrTransaction /\ evm.cleared = 1 /\ JournaledStateCleared


\* ---- C26
\* A frame has executed and the context holds a database error.
ErrorRecorded == loop_pc = "take_error" /\ evm.error # "None"
\* C26: the step after a frame execution that recorded a database error is the
\* error check leaving run_the_loop: the frame's action is not processed (call
\* stack, shared memory, journal and depth stay as they are) and the result is
\* EVMError::Database; that result is what transact returns, and the database
\* is committed only after transact returned Ok.
C26_DatabaseErrorAborts ==
    [][ /\ ErrorRecorded =>
              /\ loop_pc' = "error"
              /\ UNCHANGED <<call_stack, shared_memory, journal, depth, state>>
              /\ evm'.output = ErrDatabase
        /\ loop_pc' = "action" => evm'.error = "None"
        /\ loop_pc = "error" => loop_pc' = "error" /\ evm'.output = ErrDatabase
                                /\ ~evm'.committed
        /\ evm'.committed => evm.output = EvmOk /\ evm.pc = "commit" ]_vars
\* transact_commit has returned after the second frame of the transaction
\* recorded a database error: nothing was committed.
C26_Witness ==
    /\ evm.entry = "transact_commit" /\ evm.pc = "returned"
    /\ loop_pc = "error" /\ evm.executed = 2
    /\ evm.output = ErrDatabase /\ ~evm.committed


\* ---- C27
\* The steps of a transaction that can be taken in the current state.
EnabledSteps ==
    {i \in 1 .. 17 :
        CASE i = 1 -> ENABLED ValidateEnv
          [] i = 2 -> ENABLED ValidateInitialTxGas
          [] i = 3 -> ENABLED ValidateTxAgainstState
          [] i = 4 -> ENABLED LoadAccounts
          [] i = 5 -> ENABLED DeductCaller
          [] i = 6 -> ENABLED FirstFrame
          [] i = 7 -> ENABLED ExecuteFrame
          [] i = 8 -> ENABLED TakeError
          [] i = 9 -> ENABLED ProcessAction
          [] i = 10 -> ENABLED HandleCallReturn
          [] i = 11 -> ENABLED CalculateGasRefund
          [] i = 12 -> ENABLED ReimburseCaller
          [] i = 13 -> ENABLED RewardBeneficiary
          [] i = 14 -> ENABLED Output
          [] i = 15 -> ENABLED End
          [] i = 16 -> ENABLED Clear
          [] i = 17 -> ENABLED TransactCommit}
Padded(bc) ==
    /\ Len(bc.bytecode) >= bc.state.len + 33
    /\ \A i \in bc.state.len + 1 .. Len(bc.bytecode) : bc.bytecode[i] = 0
\* C28: a Bytecode whose state is Checked or Analysed holds at least len + 33
\* bytes, all zero from index len on.
C28_PaddedBytecode ==
    bytecode.state.tag \in {"Checked", "Analysed"} => Padded(bytecode)
\* to_checked pads a raw bytecode; Bytecode::new() is the one bytecode short of
\* the padding.
C28_CheckedIsPadded ==
    bytecode.state.tag = "Checked" => Padded(bytecode)
\* No read of the interpreter goes past the buffer.
C28_ReadsInBounds == fetch.in_bounds
\* PUSH32 at the last offset of a checked bytecode has read its 32 bytes.
C28_Witness ==
    /\ bytecode.state.tag = "Checked" /\ bytecode.state.len = MaxCodeLen
    /\ bytecode.bytecode[MaxCodeLen] = opcode.PUSH32
    /\ fetch.at = "pushed" /\ Len(fetch.slice) = 32 /\ fetch.ip = MaxCodeLen + 32


\* ---- C29
\* A word as the signed integer it stands for in two's complement.
Signed(v) == IF v >= Pow2(BITS - 1) THEN v - Pow2(BITS) ELSE v
\* An integer in the range of the signed words, as a word.
AsWord(i) == IF i < 0 THEN i + Pow2(BITS) ELSE i
\* Floor of i / 2^s for any integer i.
FloorShift(i, s) == IF i >= 0 THEN i \div Pow2(s) ELSE 0 - (((0 - i) + Pow2(s) - 1) \div Pow2(s))
\* C29: a shift by BITS or more gives 0 for SHL and SHR, and 0 or all ones by
\* the sign of the value for SAR; below BITS, SAR is the sign-filling right
\* shift (the floor of the signed value divided by 2^shift).
C29_ShiftSaturation ==
    /\ arith.op \in {"shl", "shr"} /\ arith.a >= BITS => arith.res = 0
    /\ arith.op = "sar" /\ arith.a >= BITS =>
          arith.res = IF Signed(arith.b) < 0 THEN U256_MAX ELSE 0
    /\ arith.op = "sar" /\ arith.a < BITS =>
          arith.res = AsWord(FloorShift(Signed(arith.b), arith.a))
\* SHL of a non-zero value by more than usize holds has given 0.
C29_Witness ==
    /\ arith.op = "shl" /\ arith.a = Pow2(UsizeBits) /\ arith.b = 1 /\ arith.res = 0
\* SAR of a negative value by a shift beyond the word.
C29_WitnessSar ==
    /\ arith.op = "sar" /\ arith.a = BITS /\ arith.b = MIN_NEGATIVE_VALUE + 1
    /\ arith.res = U256_MAX

\* ---- C30
Abs(i) == IF i < 0 THEN 0 - i ELSE i
\* The quotient truncated toward zero, negated iff one operand is negative.
TruncDiv(a, b) ==
    LET q == Abs(a) \div Abs(b)
    IN IF (a < 0) # (b < 0) THEN 0 - q ELSE q
\* C30: i256_div is 0 for a zero divisor, MIN for MIN / -1, and otherwise the
\* truncated quotient of the signed values, as a word.
C30_SignedDivision ==
    arith.op = "sdiv" =>
        arith.res =
            IF arith.b = 0 THEN 0
            ELSE IF arith.a = MIN_NEGATIVE_VALUE /\ arith.b = U256_MAX THEN MIN_NEGATIVE_VALUE
            ELSE AsWord(TruncDiv(Signed(arith.a), Signed(arith.b)))
\* MIN / -1 has been computed, and is MIN.
C30_Witness ==
    /\ arith.op = "sdiv" /\ arith.a = MIN_NEGATIVE_VALUE /\ arith.b = U256_MAX
    /\ arith.res = MIN_NEGATIVE_VALUE


\* ---- C31
\* |a| mod |b| with the sign of a.
SignedRem(a, b) ==
    LET r == Abs(a) % Abs(b)
    IN IF a < 0 THEN 0 - r ELSE r
\* C31: i256_mod is 0 for a zero divisor or a zero dividend and otherwise
\* |a| mod |b| with the sign of a; the sign of b does not matter; the SMOD
\* handler gives the same, and 0 for a zero divisor.
C31_SignedModulo ==
    arith.op \in {"i256_mod", "smod"} =>
        /\ arith.res = IF arith.b = 0 \/ arith.a = 0 THEN 0
                       ELSE AsWord(SignedRem(Signed(arith.a), Signed(arith.b)))
        /\ arith.res = i256_mod(arith.a, two_compl(arith.b))
\* -5 mod 3 = -2: the result has the sign of the dividend.
C31_Witness ==
    /\ arith.op = "smod" /\ arith.a = two_compl(5) /\ arith.b = 3
    /\ arith.res = two_compl(2)


\* ---- C32
\* The calls a rebuild makes: every register of the list once, in order.
Rebuilt(spec_id, registers) == append_each(mainnet_with_spec(spec_id), << >>, registers)
\* C32: the registers of the handler are the appended and not popped ones in
\* append order, and its handles are those of a fresh mainnet handler of its
\* spec with these registers applied in order; a pop without a register
\* returns None and changes nothing; a pop with registers returns the last
\* one and calls each remaining register once, in order.
C32_HandlerRegisters ==
    registered.op # "None" =>
        /\ handler.registers = registered.appended
        /\ handler = Rebuilt(handler.spec_id, registered.appended).handler
        /\ registered.op = "pop" /\ registered.pre.registers = << >> =>
              /\ registered.out = "None"
              /\ handler = registered.pre
              /\ registered.calls = registered.pre_calls
        /\ registered.op = "pop" /\ registered.pre.registers # << >> =>
              /\ registered.out = registered.pre.registers[Len(registered.pre.registers)]
              /\ handler.spec_id = registered.pre.spec_id
              /\ registered.calls = registered.pre_calls \o handler.registers
\* A pop after three appends, the wrapping register first: two registers are
\* left and were called again.
C32_Witness ==
    /\ registered.op = "pop" /\ Len(handler.registers) = 2
    /\ handler.registers[1] = "wrap_output" /\ handler.registers[2] = "set_validation"
    /\ registered.out = "set_output"
    /\ handler.handles["output"] = <<"mainnet", "wrap_output">>
    /\ Len(registered.calls) = 5


\* ---- C33
\* The transaction is accounted like a mainnet one: it is no deposit, or the
\* hardfork is Regolith or later.
ReportedAsNormal ==
    tx_env.tx.source_hash = "None"
        \/ optimism_enabled(tx_env.cfg.optimism_spec_id, OptimismSpecId.REGOLITH)
\* The cap of the refund for the gas spent.
RefundCap ==
    spent(tx_gas) \div (IF optimism_enabled(tx_env.cfg.optimism_spec_id, OptimismSpecId.LONDON)
                        THEN 5 ELSE 2)
LastFrameReturned == tx_pc = "done" /\ tx_gas.limit = tx_env.tx.gas_limit
\* What C33 states of the Gas last_frame_return leaves.
GasAsReported ==
    /\ tx_frame.result \in return_ok /\ ReportedAsNormal =>
          /\ tx_gas.remaining = tx_frame.gas.remaining
          /\ tx_gas.refunded = Min(tx_frame.gas.refunded, RefundCap)
    /\ tx_frame.result \in return_revert /\ ReportedAsNormal =>
          /\ tx_gas.remaining = tx_frame.gas.remaining
          /\ tx_gas.refunded = 0
    /\ tx_frame.result \in return_ok \cup return_revert /\ ~ReportedAsNormal =>
          /\ tx_gas.refunded = 0
          /\ spent(tx_gas) =
                IF tx_frame.result \in return_ok
                      /\ tx_env.tx.is_system_transaction = "Some(true)"
                THEN 0 ELSE tx_env.tx.gas_limit
    /\ tx_frame.result \in HaltResults =>
          spent(tx_gas) = tx_env.tx.gas_limit /\ tx_gas.refunded = 0
\* C33: last_frame_return returns the unused gas on success and revert and
\* keeps the capped refund on success only, for non-deposits and from Regolith
\* on; a deposit before Regolith spends its whole limit without refund, a
\* successful system deposit spends nothing; a halt spends the whole limit.
C33_OptimismLastFrameReturn ==
    "optimism_spec_id" \in DOMAIN tx_env.cfg /\ LastFrameReturned
        => GasAsReported
\* The same with gas refunds left enabled in the configuration.
C33_WithRefundsEnabled ==
    /\ "optimism_spec_id" \in DOMAIN tx_env.cfg
    /\ LastFrameReturned
    /\ ~tx_env.cfg.is_gas_refund_disabled
    => GasAsReported


\* ---- C34
\* C34: with checkpoints closed innermost first, the journal always holds at
\* least one entry vector (so journal.last_mut().unwrap() never meets an empty
\* journal), depth is the number of open checkpoints, and checkpoint_revert(cp)
\* leaves the journal as long as it was when cp was taken.
C34_JournalShape ==
    /\ Len(journal) >= 1
    /\ ~panicked => depth = Len(checkpoints)
    /\ Reverted => /\ Len(journal) = Len(lastOp.cp.snapjournal)
                   /\ Len(journal) = lastOp.cp.journal_i
\* An outer checkpoint is reverted after an inner one was committed: the
\* journal loses the vectors of both.
C34_Witness ==
    /\ Reverted
    /\ lastOp.cp.inner
    /\ Len(lastOp.prej) >= Len(journal) + 2
    /\ depth = Len(checkpoints)


\* ---- C35
\* p is the beginning of q.
LogPrefix(p, q) == Len(p) <= Len(q) /\ SubSeq(q, 1, Len(p)) = p
\* The logs are in the order they were emitted (a log carries the countdown of
\* the step that emitted it).
InProgramOrder(lg) == \A i, j \in DOMAIN lg : i < j => lg[i] > lg[j]
\* C35: checkpoint_revert(cp) leaves exactly the logs present when cp was
\* taken, in their order; every other operation but finalize keeps the logs it
\* found and at most appends to them; so the logs are in program order and hold
\* what was emitted before each checkpoint still open.
C35_LogsTruncatedOnRevert ==
    /\ Reverted => /\ logs = lastOp.cp.snaplogs
                   /\ logs = SubSeq(lastOp.prelogs, 1, lastOp.cp.log_i)
    /\ lastOp.op \notin {"new", "finalize", "checkpoint_revert"} =>
          LogPrefix(lastOp.prelogs, logs)
    /\ InProgramOrder(logs)
    /\ \A i \in DOMAIN checkpoints : LogPrefix(checkpoints[i].snaplogs, logs)
\* The revert of an outer checkpoint drops a log emitted in a committed inner
\* checkpoint and keeps the log emitted before the outer one.
C35_Witness ==
    /\ Reverted
    /\ lastOp.cp.inner
    /\ Len(logs) >= 1
    /\ Len(lastOp.prelogs) > Len(logs)


\* ---- C36
\* The last operation was a selfdestruct of an account already flagged
\* SelfDestructed.
DestroyedAgain ==
    /\ lastOp.op = "selfdestruct"
    /\ SelfDestructed \in lastOp.pre[lastOp.a].status
\* C36: a selfdestruct of an account that already carries SelfDestructed,
\* whatever other flags it carries, reports previously_destroyed = true, and a
\* revert leaves SelfDestructed on every account that carried it when the
\* checkpoint was taken.
C36_DestroyedTwice ==
    /\ DestroyedAgain => lastOp.res.previously_destroyed
    /\ Reverted =>
          \A a \in DOMAIN lastOp.cp.snap :
              SelfDestructed \in lastOp.cp.snap[a].status
                  => a \in DOMAIN state /\ SelfDestructed \in state[a].status
\* The same for accounts that carry no other flag than SelfDestructed.
C36_DestroyedTwiceUntouched ==
    /\ DestroyedAgain /\ lastOp.pre[lastOp.a].status = {SelfDestructed}
          => lastOp.res.previously_destroyed
    /\ Reverted =>
          \A a \in DOMAIN lastOp.cp.snap :
              lastOp.cp.snap[a].status = {SelfDestructed}
                  /\ (\A i \in DOMAIN lastOp.prej : \A j \in DOMAIN lastOp.prej[i] :
                         lastOp.prej[i][j].kind = "AccountTouched"
                             => lastOp.prej[i][j].address # a)
                  => a \in DOMAIN state /\ SelfDestructed \in state[a].status


\* ---- C37
\* The last operation was an sload, by an account flagged Created, of a slot
\* its storage did not hold.
LoadedAfterCreate ==
    /\ lastOp.op = "sload"
    /\ Created \in lastOp.pre[lastOp.a].status
    /\ lastOp.k \notin DOMAIN lastOp.pre[lastOp.a].storage
\* C37: the sload of a slot not yet present in the storage of an account
\* created in this transaction returns 0 and cold = true, whatever the
\* database holds for the slot.
C37_SloadOfCreated == LoadedAfterCreate => lastOp.res = <<0, TRUE>>
\* What holds of it: the slot is reported cold and journaled, and the value is
\* 0 only when the status is Created and nothing else.
C37_SloadOfCreatedCold ==
    LoadedAfterCreate =>
        /\ lastOp.res[2] = TRUE
        /\ lastOp.res[1] = IF lastOp.pre[lastOp.a].status = {Created} THEN 0
                           ELSE DbStorage(lastOp.a, lastOp.k)


\* ---- C38
\* The last operation was a transfer that returned Ok.
Transferred == lastOp.op = "transfer" /\ lastOp.res = "Ok"
\* The BalanceTransfer entries of a journal.
TransferEntries(jl) == {p \in EntryPlaces(jl) : IsBalanceTransfer(jl[p[1]][p[2]])}
\* The last entry of the journal.
LastEntry(jl) == jl[Len(jl)][Len(jl[Len(jl)])]
\* C38: a successful transfer(from, to, amount) takes exactly amount from
\* `from` and gives exactly amount to `to` (no balance changes when they are
\* the same account, and no other account's balance changes), so the sum is
\* kept; it journals exactly one BalanceTransfer entry, the last of the
\* journal; undoing that entry, and reverting a checkpoint that holds only
\* successful transfers, gives every account the balance it had before.
C38_TransferPreservesSum ==
    /\ Transferred =>
          LET from == lastOp.a
              to == lastOp.b
              amount == lastOp.v
              undone == revert_entry(state, LastEntry(journal), TRUE)
          IN /\ from # to =>
                   /\ state[from].balance = BalanceOf(lastOp.pre, from) - amount
                   /\ state[to].balance = BalanceOf(lastOp.pre, to) + amount
                   /\ state[from].balance + state[to].balance
                         = BalanceOf(lastOp.pre, from) + BalanceOf(lastOp.pre, to)
             /\ from = to => state[from].balance = BalanceOf(lastOp.pre, from)
             /\ \A a \in Addr \ {from, to} : BalanceOf(state, a) = BalanceOf(lastOp.pre, a)
             /\ Len(journal) = Len(lastOp.prej)
             /\ Cardinality(TransferEntries(journal))
                   = Cardinality(TransferEntries(lastOp.prej)) + 1
             /\ LastEntry(journal) = BalanceTransfer(from, to, amount)
             /\ undone.ok
             /\ \A a \in Addr : BalanceOf(undone.st, a) = BalanceOf(lastOp.pre, a)
    /\ Reverted /\ lastOp.cp.ops \subseteq {"transfer", "load_account", "checkpoint",
                                            "checkpoint_commit", "checkpoint_revert"} =>
          \A a \in Addr : BalanceOf(state, a) = BalanceOf(lastOp.cp.snap, a)
\* A transfer between two accounts loaded before the checkpoint is reverted.
C38_Witness ==
    /\ Reverted
    /\ lastOp.cp.ops = {"transfer"}
    /\ \E a, b \in DOMAIN lastOp.cp.snap :
          /\ a # b
          /\ lastOp.pre[a].balance < lastOp.cp.snap[a].balance
          /\ lastOp.pre[b].balance > lastOp.cp.snap[b].balance
          /\ state[a].balance = lastOp.cp.snap[a].balance
          /\ state[b].balance = lastOp.cp.snap[b].balance
\* A successful transfer of an account to itself.
C38_WitnessSelf == Transferred /\ lastOp.a = lastOp.b


\* ---- C39
\* The frames below the executing one are as they were before the iteration.
CallersKept ==
    \A i \in 1 .. (loop_step.pre_frames - 1) :
        i <= Len(call_stack) - 1 => call_stack[i] = loop_step.pre_stack[i]
\* What one iteration of run_the_loop does to the call stack.
LoopIteration ==
    /\ loop_step.action # "None" => CallersKept
    /\ loop_pc = "returned" =>
          /\ call_stack = << >>
          /\ loop_step.action = "Return"
          /\ loop_step.out = "Result"
          /\ loop_step.pre_frames = 1
    /\ (loop_step.action = "Return" /\ loop_step.out = "Result") =>
          /\ call_stack = IF loop_step.pre_frames = 1 THEN << >>
                          ELSE [SubSeq(loop_step.pre_stack, 1, loop_step.pre_frames - 1)
                                   EXCEPT ![loop_step.pre_frames - 1].outcome =
                                       FrameResult(loop_step.pre_stack[loop_step.pre_frames].kind,
                                                   loop_step.result)]
          /\ loop_pc = IF loop_step.pre_frames = 1 THEN "returned" ELSE "running"
    /\ (loop_step.action \in FrameKinds /\ loop_step.out = "Frame") =>
          /\ Len(call_stack) = loop_step.pre_frames + 1
          /\ SubSeq(call_stack, 1, loop_step.pre_frames) = loop_step.pre_stack
          /\ call_stack[Len(call_stack)].kind = loop_step.action
          /\ call_stack[Len(call_stack)].outcome = NoOutcome
          /\ loop_pc = "running"
    /\ (loop_step.action \in FrameKinds /\ loop_step.out = "Result") =>
          /\ call_stack = [loop_step.pre_stack EXCEPT ![loop_step.pre_frames].outcome =
                              FrameResult(loop_step.action, loop_step.result)]
          /\ loop_step.result \notin return_ok
          /\ loop_pc = "running"
\* C39: an iteration of run_the_loop changes the top frame only; it returns
\* only when a Return pops the last frame; a Call or Create pushes the child on
\* top or puts the failure result into the calling frame, which stays on top;
\* and when every frame issues finitely many calls and then reports Return,
\* the loop ends with an empty call stack.
C39_LoopTerminates ==
    /\ []LoopIteration
    /\ <>(loop_pc = "returned" /\ call_stack = << >>)
\* The loop returned after a call was answered with a failure result, a child
\* was pushed and returned into its caller, and the last frame returned.
C39_Witness ==
    /\ loop_pc = "returned"
    /\ call_stack = << >>
    /\ loop_step.action = "Return"
    /\ loop_step.pre_frames = 1
    /\ loop_step.pre_stack[1].outcome # NoOutcome
    /\ lfuel = 0


\* ---- C40
\* The last operation was a load_account_exist; its account and its answer.
ExistAsked == lastOp.op = "load_account_exist"
AskedAccount == state[lastOp.a]
ExistReported == lastOp.res[2]
\* C40: before Spurious Dragon load_account_exist reports exists = false
\* exactly for an account loaded as not existing and not touched since, so
\* exists = true for every account of the database and every touched account;
\* from Spurious Dragon on it reports exists = true iff the account is not
\* empty.
C40_AccountExists ==
    ExistAsked =>
        /\ is_before_spurious_dragon =>
              /\ (~ExistReported) <=> (/\ LoadedAsNotExisting \in AskedAccount.status
                                      /\ Touched \notin AskedAccount.status)
              /\ (DbHas(lastOp.a) \/ Touched \in AskedAccount.status) => ExistReported
        /\ ~is_before_spurious_dragon => (ExistReported <=> ~is_empty(AskedAccount))
\* The part of it from Spurious Dragon on.
C40_FromSpuriousDragon ==
    ExistAsked /\ ~is_before_spurious_dragon => (ExistReported <=> ~is_empty(AskedAccount))
\* What is reported before Spurious Dragon: exists = true exactly when the
\* status is LoadedAsNotExisting alone or Touched alone.
C40_BeforeSpuriousDragon ==
    ExistAsked /\ is_before_spurious_dragon =>
        (ExistReported <=> AskedAccount.status \in {{LoadedAsNotExisting}, {Touched}})

====
